---- MODULE Spec2Model ----
(***************************************************************************)
(* A model of the cc-manage configuration store (ConfigManager): the      *)
(* provider records, the two in-memory active flags, the status cache,    *)
(* the persisted store file ~/.cc-manage/configs.json and the external    *)
(* files ~/.claude/settings.json, ~/.codex/auth.json, ~/.codex/config.toml.*)
(*                                                                         *)
(* Texts.  A short free text (name, website, a status field) is a         *)
(* sequence of one-character strings, so trim() is computed.  A JSON      *)
(* document is a record: pad (surrounding whitespace), kind ("blank",     *)
(* "bad" = not JSON, "obj" = a JSON object), the values of the keys the   *)
(* program reads (url, tok; "" = key missing or empty) and x, which       *)
(* stands for the sibling keys, so two documents with the same identity   *)
(* can differ as texts.  A TOML document is a sequence of lines.  The     *)
(* body of a status response is a JSON value or a text that is not JSON.  *)
(*                                                                         *)
(* Spec runs the store's calls one at a time; SpecAsync lets a            *)
(* refreshStatus or refreshAll suspended on its request interleave with   *)
(* other calls; SpecOverlap splits addConfig, deleteConfig and            *)
(* setActiveConfig at their file operations and lets them interleave;     *)
(* SpecWebview puts the sidebar in front of the store, the                *)
(* webview posting requests and the extension host answering them;        *)
(* SpecPure applies the form's and the status normalizer's functions to   *)
(* bounded sets of inputs.                                                 *)
(***************************************************************************)
EXTENDS Integers, Sequences, FiniteSets, TLC

VARIABLES
    phase,           \* "new": constructed, init() not yet run; "returned": a
                     \* call has just returned or thrown; "ready": in between
    configs,         \* this.data.configs
    statusCache,     \* this.statusCache : id -> snapshot
    activeClaudeId,  \* this.activeClaudeId
    activeCodexId,   \* this.activeCodexId
    nextId,          \* the ids randomUUID() has handed out so far
    disk,            \* ~/.cc-manage/configs.json
    extClaude,       \* ~/.claude/settings.json
    extCodexAuth,    \* ~/.codex/auth.json
    extCodexToml,    \* ~/.codex/config.toml
    last,            \* the last call and its outcome (what the caller sees)
    arg,             \* the id and endpoint type the last call was made with
    inflight,        \* the calls suspended on an await: a request
                     \* (SpecAsync) or a file operation (SpecOverlap)
    calc,            \* a function applied on its own: its input and result
    webview          \* the sidebar: the flags of its script, the messages
                     \* between it and the extension host, the handler
                     \* of the message being served

vars == <<phase, configs, statusCache, activeClaudeId, activeCodexId, nextId,
          disk, extClaude, extCodexAuth, extCodexToml, last, arg, inflight,
          calc, webview>>

memVars == <<configs, statusCache, activeClaudeId, activeCodexId>>
extVars == <<extClaude, extCodexAuth, extCodexToml>>
auxVars == <<inflight, calc, webview>>
storeVars == <<phase, memVars, nextId, disk, extVars, last, arg, inflight>>

----------------------------------------------------------------------------
(* Bounds *)

\* randomUUID() is called at most this many times
MaxIds == 2

\* at most this many refreshStatus calls are suspended at a time
MaxInflight == 1

\* a TOML text has at most this many lines
MaxTomlLen == 4

\* a status body reports amounts of 0 to MaxQuota units of QuotaUnit
MaxQuota == 4
QuotaUnit == 100

----------------------------------------------------------------------------
(* Optional values: undefined, or a value *)

None == [some |-> FALSE]
Some(v) == [some |-> TRUE, v |-> v]

\* undefined for a record id
NoId == 0

----------------------------------------------------------------------------
(* Free texts *)

RECURSIVE TrimStart(_)
TrimStart(s) ==
    IF s = <<>> THEN s
    ELSE IF Head(s) = " " THEN TrimStart(Tail(s)) ELSE s

RECURSIVE TrimEnd(_)
TrimEnd(s) ==
    IF s = <<>> THEN s
    ELSE IF s[Len(s)] = " " THEN TrimEnd(SubSeq(s, 1, Len(s) - 1)) ELSE s

\* String.prototype.trim
Trim(s) == TrimEnd(TrimStart(s))

\* x?.trim() of an optional text
TrimOpt(o) == IF o.some THEN Some(Trim(o.v)) ELSE None

\* !x for an optional text: undefined or ""
Falsy(o) == ~o.some \/ o.v = <<>>

\* x || undefined
OrUndefined(o) == IF Falsy(o) THEN None ELSE o

----------------------------------------------------------------------------
(* JSON documents *)

JsonDoc(pad, kind, url, tok, x) ==
    [pad |-> pad, kind |-> kind, url |-> url, tok |-> tok, x |-> x]

\* text.trim() of a JSON text
TrimJson(d) == [d EXCEPT !.pad = FALSE]

\* !text.trim()
BlankJson(d) == d.kind = "blank"

\* JSON.parse throws a SyntaxError (JSON.parse skips surrounding whitespace)
JsonSyntaxError(d) == d.kind # "obj"

----------------------------------------------------------------------------
(* TOML documents: sequences of lines.  A line is                          *)
(*   "blank"  whitespace only                                              *)
(*   "mp"     model_provider = "<v>"                                       *)
(*   "hdr"    [model_providers.<v>]                                        *)
(*   "table"  another table header, [<v>]                                  *)
(*   "url"    base_url = "<v>"                                             *)
(*   "xurl"   <prefix>base_url = "<v>"   (e.g. chatgpt_base_url)           *)
(*   "key"    another key, <v> = ...                                       *)
(* ind: the line starts with whitespace.                                   *)

TomlLine(t, v, ind) == [t |-> t, v |-> v, ind |-> ind]

\* case folding of the provider names in use (the header regex has flag i)
Lower(n) == IF n = "P" THEN "p" ELSE n

RECURSIVE DropBlankStart(_)
DropBlankStart(ls) ==
    IF ls = <<>> THEN ls
    ELSE IF Head(ls).t = "blank" THEN DropBlankStart(Tail(ls)) ELSE ls

RECURSIVE DropBlankEnd(_)
DropBlankEnd(ls) ==
    IF ls = <<>> THEN ls
    ELSE IF ls[Len(ls)].t = "blank" THEN DropBlankEnd(SubSeq(ls, 1, Len(ls) - 1))
         ELSE ls

\* text.trim() of a TOML text: blank lines at both ends go, and so does the
\* indentation of the first remaining line
TrimToml(ls) ==
    LET body == DropBlankEnd(DropBlankStart(ls))
    IN  IF body = <<>> THEN body
        ELSE [body EXCEPT ![1] = [@ EXCEPT !.ind = FALSE]]

\* the least of a set of indices, or 0 when there is none: the position of
\* the first match of a scan
First(hits) ==
    IF hits = {} THEN 0 ELSE CHOOSE i \in hits : \A j \in hits : i <= j

\* the positions of a sequence
Indices(ls) == 1..Len(ls)

----------------------------------------------------------------------------
(* Connection identities *)

\* extractCodexBaseUrl: "" stands for undefined
extractCodexBaseUrl(configToml) ==
    LET IsProviderKey(i, l) == l.t = "mp" /\ l.v # ""
        p == First({i \in Indices(configToml) : IsProviderKey(i, configToml[i])})
        providerName == configToml[p].v
        IsSection(i, l) == l.t = "hdr" /\ Lower(l.v) = Lower(providerName)
        h == IF p = 0 THEN 0
             ELSE First({i \in Indices(configToml) : IsSection(i, configToml[i])})
        \* [\s\S]*? runs lazily from the header to the first base_url = "..."
        \* that follows it, in whatever table that is
        IsAfterHeader(i, l) == i > h /\ l.t \in {"url", "xurl"} /\ l.v # ""
        s == IF h = 0 THEN 0
             ELSE First({i \in Indices(configToml) : IsAfterHeader(i, configToml[i])})
        \* ^base_url with flag m: a line that starts with base_url
        IsMainBaseUrl(i, l) == l.t = "url" /\ ~l.ind /\ l.v # ""
        m == First({i \in Indices(configToml) : IsMainBaseUrl(i, configToml[i])})
    IN  IF s # 0 THEN configToml[s].v
        ELSE IF m # 0 THEN configToml[m].v
        ELSE ""

\* the two env keys read into each other's field
parseClaudeConfig_Swapped(config) ==
    IF JsonSyntaxError(config.settingsJson) THEN None
    ELSE IF config.settingsJson.url # "" /\ config.settingsJson.tok # ""
         THEN Some([baseUrl |-> config.settingsJson.tok,
                    apiKey |-> config.settingsJson.url])
         ELSE None

\* parseClaudeConfig: null, or {baseUrl, apiKey}
parseClaudeConfig(config) ==
    IF JsonSyntaxError(config.settingsJson) THEN None
    ELSE IF config.settingsJson.url # "" /\ config.settingsJson.tok # ""
         THEN Some([baseUrl |-> config.settingsJson.url,
                    apiKey |-> config.settingsJson.tok])
         ELSE None

\* parseCodexConfig: null, or {baseUrl, apiKey}
parseCodexConfig(config) ==
    IF JsonSyntaxError(config.authJson) THEN None
    ELSE LET apiKey == config.authJson.tok
             baseUrl == extractCodexBaseUrl(config.configToml)
         IN  IF apiKey # "" /\ baseUrl # ""
             THEN Some([baseUrl |-> baseUrl, apiKey |-> apiKey])
             ELSE None

----------------------------------------------------------------------------
(* Validation.  A result is [err, payload]; err = "none" means no throw.   *)

Rejected(e) == [err |-> e, payload |-> None]

\* the block dropped as soon as one field is blank
normalizeStatusBlock_AnyBlank(status) ==
    LET field(f) == IF status.some THEN TrimOpt(status.v[f]) ELSE None
    IN  IF Falsy(field("url")) \/ Falsy(field("authorization"))
           \/ Falsy(field("userId")) \/ Falsy(field("cookie"))
        THEN None
        ELSE Some([url |-> field("url"), authorization |-> field("authorization"),
                   userId |-> field("userId"), cookie |-> field("cookie")])

\* normalizeStatusBlock
normalizeStatusBlock(status) ==
    LET field(f) == IF status.some THEN TrimOpt(status.v[f]) ELSE None
        url == field("url")
        authorization == field("authorization")
        userId == field("userId")
        cookie == field("cookie")
    IN  IF Falsy(url) /\ Falsy(authorization) /\ Falsy(userId) /\ Falsy(cookie)
        THEN None
        ELSE Some([url |-> OrUndefined(url),
                   authorization |-> OrUndefined(authorization),
                   userId |-> OrUndefined(userId),
                   cookie |-> OrUndefined(cookie)])

\* the test of the two endpoints left out
noEndpoint_NeverRejects(claude, codex) == FALSE

\* normalizeInput: neither endpoint is configured
noEndpoint(claude, codex) == ~claude.some /\ ~codex.some

\* normalizeInput
normalizeInput(input) ==
    LET name == Trim(input.name)
        \* the Claude block: the error it throws, or "none"
        ClaudeError ==
            IF ~input.claude.some THEN "none"
            ELSE LET doc == input.claude.v.settingsJson
                 IN  IF BlankJson(doc) THEN "claudeEmpty"
                     ELSE IF JsonSyntaxError(doc) THEN "claudeFormat"
                     ELSE IF doc.tok = "" \/ doc.url = "" THEN "claudeMissingKeys"
                     ELSE "none"
        \* the Codex block: the error it throws, or "none"
        CodexError ==
            IF ~input.codex.some THEN "none"
            ELSE LET auth == input.codex.v.authJson
                     toml == input.codex.v.configToml
                 IN  IF BlankJson(auth) \/ TrimToml(toml) = <<>> THEN "codexEmpty"
                     ELSE IF JsonSyntaxError(auth) THEN "codexFormat"
                     ELSE IF auth.tok = "" THEN "codexMissingKey"
                     ELSE IF extractCodexBaseUrl(TrimToml(toml)) = ""
                     THEN "codexNoBaseUrl"
                     ELSE "none"
        claude == IF input.claude.some
                  THEN Some([settingsJson |-> TrimJson(input.claude.v.settingsJson)])
                  ELSE None
        codex == IF input.codex.some
                 THEN Some([authJson |-> TrimJson(input.codex.v.authJson),
                            configToml |-> TrimToml(input.codex.v.configToml)])
                 ELSE None
    IN  IF name = <<>> THEN Rejected("nameEmpty")
        ELSE IF ClaudeError # "none" THEN Rejected(ClaudeError)
        ELSE IF CodexError # "none" THEN Rejected(CodexError)
        ELSE IF noEndpoint(claude, codex) THEN Rejected("noEndpoint")
        ELSE [err |-> "none",
              payload |-> Some([name |-> name,
                                website |-> TrimOpt(input.website),
                                status |-> normalizeStatusBlock(input.status),
                                claude |-> claude,
                                codex |-> codex])]

\* the id test inverted: item.id === ignoreId
ensureUniqueName_InvertedId(cs, name, ignoreId) ==
    \E i \in 1..Len(cs) : cs[i].name = name /\ cs[i].id = ignoreId

\* the scan stops one record short
ensureUniqueName_SkipsLast(cs, name, ignoreId) ==
    \E i \in 1..(Len(cs) - 1) : cs[i].name = name /\ cs[i].id # ignoreId

\* ensureUniqueName: TRUE when it throws
ensureUniqueName(cs, name, ignoreId) ==
    \E i \in 1..Len(cs) : cs[i].name = name /\ cs[i].id # ignoreId

\* an id that no record has taken for the first record
IndexOfId_FirstIfMissing(cs, id) ==
    IF \E i \in 1..Len(cs) : cs[i].id = id
    THEN CHOOSE i \in 1..Len(cs) : cs[i].id = id
    ELSE IF cs = <<>> THEN 0 ELSE 1

\* this.data.configs.find((item) => item.id === id): its index, or 0
IndexOfId(cs, id) ==
    LET IsIt(i, c) == c.id = id
    IN  First({i \in Indices(cs) : IsIt(i, cs[i])})

----------------------------------------------------------------------------
(* Detection of the active records from the external files.  A file is    *)
(* None (absent) or Some(text).                                            *)

\* the identity (baseUrl, apiKey) read from ~/.claude/settings.json;
\* None when reading or parsing it throws
externalClaude(ext) ==
    IF ~ext.some \/ JsonSyntaxError(ext.v) THEN None
    ELSE Some([baseUrl |-> ext.v.url, apiKey |-> ext.v.tok])

\* the identity read from ~/.codex/config.toml and ~/.codex/auth.json;
\* None when reading either file or parsing auth.json throws
externalCodex(auth, toml) ==
    IF ~toml.some \/ ~auth.some \/ JsonSyntaxError(auth.v) THEN None
    ELSE Some([baseUrl |-> extractCodexBaseUrl(toml.v), apiKey |-> auth.v.tok])

\* parsed && parsed.baseUrl === baseUrl && parsed.apiKey === apiKey
SameIdentity(parsed, ext) ==
    parsed.some /\ parsed.v.baseUrl = ext.baseUrl /\ parsed.v.apiKey = ext.apiKey

claudeMatches(c, ext) ==
    c.claude.some /\ SameIdentity(parseClaudeConfig(c.claude.v), ext)

codexMatches(c, ext) ==
    c.codex.some /\ SameIdentity(parseCodexConfig(c.codex.v), ext)

\* the scan keeps the last record that matches instead of the first
detectActiveClaude_LastMatch(cs, cur, ext) ==
    LET e == externalClaude(ext)
        hits == {i \in 1..Len(cs) : claudeMatches(cs[i], e.v)}
    IN  IF ~e.some \/ e.v.baseUrl = "" \/ e.v.apiKey = "" THEN cur
        ELSE IF hits = {} THEN cur
        ELSE cs[CHOOSE i \in hits : \A j \in hits : j <= i].id

\* detectActiveConfigs, Claude half: the new value of activeClaudeId
detectActiveClaude(cs, cur, ext) ==
    LET e == externalClaude(ext)
        Hit(i, c) == claudeMatches(c, e.v)
        k == First({i \in Indices(cs) : Hit(i, cs[i])})
    IN  IF ~e.some \/ e.v.baseUrl = "" \/ e.v.apiKey = "" THEN cur
        ELSE IF k = 0 THEN cur ELSE cs[k].id

\* the scan of the Codex half going on after the first match
detectActiveCodex_LastMatch(cs, cur, auth, toml) ==
    LET e == externalCodex(auth, toml)
        hits == {i \in 1..Len(cs) : codexMatches(cs[i], e.v)}
    IN  IF ~e.some \/ e.v.baseUrl = "" \/ e.v.apiKey = "" THEN cur
        ELSE IF hits = {} THEN cur
        ELSE cs[CHOOSE i \in hits : \A j \in hits : j <= i].id

\* detectActiveConfigs, Codex half: the new value of activeCodexId
detectActiveCodex(cs, cur, auth, toml) ==
    LET e == externalCodex(auth, toml)
        Hit(i, c) == codexMatches(c, e.v)
        k == First({i \in Indices(cs) : Hit(i, cs[i])})
    IN  IF ~e.some \/ e.v.baseUrl = "" \/ e.v.apiKey = "" THEN cur
        ELSE IF k = 0 THEN cur ELSE cs[k].id

\* the flag cleared whenever the record does not match
detectClaudeForId_ClearsAny(cs, configId, cur, ext) ==
    LET k == IndexOfId(cs, configId)
        e == externalClaude(ext)
    IN  IF k = 0 THEN cur
        ELSE IF ~cs[k].claude.some THEN cur
        ELSE IF e.some /\ claudeMatches(cs[k], e.v) THEN configId
        ELSE NoId

\* detectActiveConfigForId, Claude half: the new value of activeClaudeId
detectClaudeForId(cs, configId, cur, ext) ==
    LET k == IndexOfId(cs, configId)
        e == externalClaude(ext)
    IN  IF k = 0 THEN cur
        ELSE IF ~cs[k].claude.some THEN cur
        ELSE IF e.some /\ claudeMatches(cs[k], e.v) THEN configId
        ELSE IF cur = configId THEN NoId
        ELSE cur

\* detectActiveConfigForId, Codex half: the new value of activeCodexId
detectCodexForId(cs, configId, cur, auth, toml) ==
    LET k == IndexOfId(cs, configId)
        e == externalCodex(auth, toml)
    IN  IF k = 0 THEN cur
        ELSE IF ~cs[k].codex.some THEN cur
        ELSE IF e.some /\ codexMatches(cs[k], e.v) THEN configId
        ELSE IF cur = configId THEN NoId
        ELSE cur

----------------------------------------------------------------------------
(* The persisted store file.  JSON.stringify leaves out the keys whose    *)
(* value is undefined; reading a key that is not there gives undefined.   *)

FILE_VERSION == 1

\* JSON.stringify then JSON.parse of an object with optional members;
\* RequiredKeys are the keys that always have a value
ToJson(obj) ==
    LET RequiredKeys == {"id", "name", "settingsJson", "authJson", "configToml"}
        keys == {f \in DOMAIN obj : f \in RequiredKeys \/ obj[f].some}
    IN  [f \in keys |-> IF f \in RequiredKeys THEN obj[f] ELSE obj[f].v]

\* obj.key for a key that may be missing
Member(obj, f) == IF f \in DOMAIN obj THEN Some(obj[f]) ELSE None

StatusToJson(st) == ToJson(st)

\* the website member left out of the stored object
ConfigToJson_NoWebsite(c) ==
    ToJson([c EXCEPT !.website = None,
                     !.status = IF @.some THEN Some(StatusToJson(@.v)) ELSE @])

ConfigToJson(c) ==
    ToJson([c EXCEPT !.status = IF @.some THEN Some(StatusToJson(@.v)) ELSE @])

ConfigFromJson(j) ==
    LET StatusFromJson(st) ==
            [url |-> Member(st, "url"),
             authorization |-> Member(st, "authorization"),
             userId |-> Member(st, "userId"), cookie |-> Member(st, "cookie")]
    IN  [id |-> j.id, name |-> j.name,
         website |-> Member(j, "website"),
         status |-> IF "status" \in DOMAIN j THEN Some(StatusFromJson(j.status))
                    ELSE None,
         claude |-> Member(j, "claude"),
         codex |-> Member(j, "codex")]

AbsentFile == [kind |-> "absent"]
BadFile == [kind |-> "bad"]
NoArrayFile == [kind |-> "obj", configs |-> None]

\* persist: the text written to configs.json
persist(cs) ==
    [kind |-> "obj", version |-> FILE_VERSION,
     configs |-> Some([i \in 1..Len(cs) |-> ConfigToJson(cs[i])])]

\* the try/catch left out: a file that cannot be read or parsed is fatal
load_Uncaught(file) ==
    IF file.kind = "obj"
    THEN [threw |-> FALSE,
          configs |-> IF file.configs.some
                      THEN [i \in 1..Len(file.configs.v) |->
                               ConfigFromJson(file.configs.v[i])]
                      ELSE <<>>]
    ELSE [threw |-> TRUE, configs |-> <<>>]

\* load: whether it throws, and this.data.configs afterwards
load(file) ==
    IF file.kind = "obj" /\ file.configs.some
    THEN [threw |-> FALSE,
          configs |-> [i \in 1..Len(file.configs.v) |-> ConfigFromJson(file.configs.v[i])]]
    ELSE [threw |-> FALSE, configs |-> <<>>]

----------------------------------------------------------------------------
(* The base URL of a Codex document set and removed.  mergeCodexConfigToml *)
(* is the form's merge of the base URL field into the TOML field;          *)
(* extractCustomToml is its inverse for the form, the TOML without the     *)
(* provider table's base_url.                                              *)

\* /^\s*model_provider\s*=\s*"([^"]+)"/m: the position of the first match
providerMatch(toml) ==
    First({i \in Indices(toml) : toml[i].t = "mp" /\ toml[i].v # ""})

\* sectionRegex.test(line): [model_providers.<name>], case ignored
IsSectionHeader(line, providerName) ==
    line.t = "hdr" /\ Lower(line.v) = Lower(providerName)

\* /^\s*\[/.test(line)
IsTableHeader(line) == line.t \in {"hdr", "table"}

\* /^\s*base_url\s*=/.test(line)
IsBaseUrlLine(line) == line.t = "url"

\* the lines of a new provider table
providerSection(providerName, baseUrl) ==
    <<TomlLine("hdr", providerName, FALSE), TomlLine("key", "name", FALSE),
      TomlLine("url", baseUrl, FALSE), TomlLine("key", "wire_api", FALSE),
      TomlLine("key", "requires_openai_auth", FALSE)>>

EmptyLine == TomlLine("blank", "", FALSE)

\* no base_url line added when the provider table is left without one
RECURSIVE mergeLines_NoInsert(_, _, _, _, _)
mergeLines_NoInsert(lines, baseUrl, providerName, inProviderSection, baseUrlUpdated) ==
    IF lines = <<>>
    THEN IF inProviderSection /\ ~baseUrlUpdated
         THEN <<TomlLine("url", baseUrl, FALSE)>> ELSE <<>>
    ELSE IF IsSectionHeader(Head(lines), providerName)
    THEN <<Head(lines)>>
         \o mergeLines_NoInsert(Tail(lines), baseUrl, providerName, TRUE, baseUrlUpdated)
    ELSE LET inside == inProviderSection /\ ~IsTableHeader(Head(lines))
         IN  IF inside /\ IsBaseUrlLine(Head(lines))
             THEN <<TomlLine("url", baseUrl, FALSE)>>
                  \o mergeLines_NoInsert(Tail(lines), baseUrl, providerName, inside, TRUE)
             ELSE <<Head(lines)>>
                  \o mergeLines_NoInsert(Tail(lines), baseUrl, providerName, inside,
                                         baseUrlUpdated)

\* mergeCodexConfigToml, the loop over the lines and the append after it
RECURSIVE mergeLines(_, _, _, _, _)
mergeLines(lines, baseUrl, providerName, inProviderSection, baseUrlUpdated) ==
    IF lines = <<>>
    THEN IF inProviderSection /\ ~baseUrlUpdated
         THEN <<TomlLine("url", baseUrl, FALSE)>> ELSE <<>>
    ELSE IF IsSectionHeader(Head(lines), providerName)
    THEN <<Head(lines)>>
         \o mergeLines(Tail(lines), baseUrl, providerName, TRUE, baseUrlUpdated)
    ELSE LET leaving == inProviderSection /\ IsTableHeader(Head(lines))
             inserted == leaving /\ ~baseUrlUpdated
             inside == inProviderSection /\ ~leaving
         IN  (IF inserted THEN <<TomlLine("url", baseUrl, FALSE)>> ELSE <<>>)
             \o (IF inside /\ IsBaseUrlLine(Head(lines))
                 THEN <<TomlLine("url", baseUrl, FALSE)>>
                      \o mergeLines(Tail(lines), baseUrl, providerName, inside, TRUE)
                 ELSE <<Head(lines)>>
                      \o mergeLines(Tail(lines), baseUrl, providerName, inside,
                                    baseUrlUpdated \/ inserted))

\* mergeCodexConfigToml
mergeCodexConfigToml(baseUrl, customToml) ==
    LET p == providerMatch(customToml)
        providerName == customToml[p].v
        hasSectionHeader ==
            \E i \in Indices(customToml) : IsSectionHeader(customToml[i], providerName)
    IN  IF customToml = <<>>
        THEN <<TomlLine("mp", "custom", FALSE), EmptyLine>>
             \o providerSection("custom", baseUrl)
        ELSE IF p = 0
        THEN <<TomlLine("mp", "custom", FALSE), EmptyLine>> \o customToml
             \o <<EmptyLine>> \o providerSection("custom", baseUrl)
        ELSE IF hasSectionHeader
        THEN mergeLines(customToml, baseUrl, providerName, FALSE, FALSE)
        ELSE customToml \o <<EmptyLine>> \o providerSection(providerName, baseUrl)

\* only the first base_url line of the provider table skipped
RECURSIVE customLines_FirstOnly(_, _, _)
customLines_FirstOnly(lines, providerName, inProviderSection) ==
    IF lines = <<>> THEN <<>>
    ELSE IF IsSectionHeader(Head(lines), providerName)
    THEN <<Head(lines)>> \o customLines_FirstOnly(Tail(lines), providerName, TRUE)
    ELSE LET inside == inProviderSection /\ ~IsTableHeader(Head(lines))
         IN  IF inside /\ IsBaseUrlLine(Head(lines)) THEN Tail(lines)
             ELSE <<Head(lines)>> \o customLines_FirstOnly(Tail(lines), providerName, inside)

\* the base_url lines of every table and of the root skipped
RECURSIVE customLines_Everywhere(_, _, _)
customLines_Everywhere(lines, providerName, inProviderSection) ==
    IF lines = <<>> THEN <<>>
    ELSE (IF IsBaseUrlLine(Head(lines)) THEN <<>> ELSE <<Head(lines)>>)
         \o customLines_Everywhere(Tail(lines), providerName, inProviderSection)

\* extractCustomToml, the loop over the lines
RECURSIVE customLines(_, _, _)
customLines(lines, providerName, inProviderSection) ==
    IF lines = <<>> THEN <<>>
    ELSE IF IsSectionHeader(Head(lines), providerName)
    THEN <<Head(lines)>> \o customLines(Tail(lines), providerName, TRUE)
    ELSE LET inside == inProviderSection /\ ~IsTableHeader(Head(lines))
         IN  (IF inside /\ IsBaseUrlLine(Head(lines)) THEN <<>> ELSE <<Head(lines)>>)
             \o customLines(Tail(lines), providerName, inside)

\* extractCustomToml
extractCustomToml(configToml) ==
    LET p == providerMatch(configToml)
    IN  IF p = 0 THEN configToml
        ELSE TrimToml(customLines(configToml, configToml[p].v, FALSE))

----------------------------------------------------------------------------
(* JavaScript values, as JSON.parse yields them.  An object is a function  *)
(* from its keys to values; numbers are the integers (NaN apart); a string *)
(* is a sequence of one-character strings.                                 *)

Undefined == [t |-> "undefined"]
JNull == [t |-> "null"]
NaN == [t |-> "nan"]
JBool(b) == [t |-> "bool", b |-> b]
JNum(n) == [t |-> "num", n |-> n]
JStr(s) == [t |-> "str", s |-> s]
JArr(a) == [t |-> "arr", a |-> a]
JObj(f) == [t |-> "obj", f |-> f]

\* typeof v === 'number', typeof v === 'object' && v !== null
IsNumber(v) == v.t \in {"num", "nan"}
IsObject(v) == v.t \in {"obj", "arr"}

\* key in v, v[key] for a named key (an array has none)
HasKey(v, key) == v.t = "obj" /\ key \in DOMAIN v.f
Get(v, key) == IF HasKey(v, key) THEN v.f[key] ELSE Undefined

\* the condition of if (v)
Truthy(v) ==
    CASE v.t = "bool" -> v.b
      [] v.t = "num" -> v.n # 0
      [] v.t = "str" -> v.s # <<>>
      [] v.t \in {"obj", "arr"} -> TRUE
      [] OTHER -> FALSE

DigitChars == <<"0", "1", "2", "3", "4", "5", "6", "7", "8", "9">>

\* the decimal digits of a natural number
RECURSIVE Digits(_)
Digits(n) ==
    IF n < 10 THEN <<DigitChars[n + 1]>>
    ELSE Append(Digits(n \div 10), DigitChars[(n % 10) + 1])

\* the value of a non-empty sequence of decimal digits
RECURSIVE DigitsValue(_)
DigitsValue(s) ==
    IF s = <<>> THEN 0
    ELSE 10 * DigitsValue(SubSeq(s, 1, Len(s) - 1))
         + (CHOOSE d \in 0..9 : DigitChars[d + 1] = s[Len(s)])

IsDigits(s) ==
    s # <<>> /\ \A i \in 1..Len(s) : \E d \in 1..10 : DigitChars[d] = s[i]

\* Number(v) for a number or a string: a string is trimmed, the empty
\* string is 0, an optionally signed run of digits is its value, any other
\* text of the model's alphabet is NaN
Number(v) ==
    IF IsNumber(v) THEN v
    ELSE LET s == Trim(v.s)
             signed == s # <<>> /\ s[1] \in {"-", "+"}
             body == IF signed THEN Tail(s) ELSE s
         IN  IF s = <<>> THEN JNum(0)
             ELSE IF ~IsDigits(body) THEN NaN
             ELSE IF signed /\ s[1] = "-" THEN JNum(0 - DigitsValue(body))
             ELSE JNum(DigitsValue(body))

\* the remaining amount taken for the total
Plus_Remaining(a, b) == b

\* a + b on numbers
Plus(a, b) == IF a.t = "nan" \/ b.t = "nan" THEN NaN ELSE JNum(a.n + b.n)

RECURSIVE Join(_, _)
Join(texts, sep) ==
    IF texts = <<>> THEN <<>>
    ELSE IF Len(texts) = 1 THEN texts[1]
    ELSE texts[1] \o sep \o Join(Tail(texts), sep)

\* String(v)
RECURSIVE String(_)
String(v) ==
    CASE v.t = "undefined" -> <<"u", "n", "d", "e", "f", "i", "n", "e", "d">>
      [] v.t = "null" -> <<"n", "u", "l", "l">>
      [] v.t = "nan" -> <<"N", "a", "N">>
      [] v.t = "bool" -> IF v.b THEN <<"t", "r", "u", "e">>
                         ELSE <<"f", "a", "l", "s", "e">>
      [] v.t = "num" -> IF v.n < 0 THEN <<"-">> \o Digits(0 - v.n) ELSE Digits(v.n)
      [] v.t = "str" -> v.s
      [] v.t = "arr" -> Join([i \in 1..Len(v.a) |->
                                 IF v.a[i].t \in {"null", "undefined"} THEN <<>>
                                 ELSE String(v.a[i])], <<",">>)
      [] v.t = "obj" -> <<"[", "o", "b", "j", "e", "c", "t", " ", "O", "b", "j",
                          "e", "c", "t", "]">>

\* A text of a status snapshot: characters, or the text JSON.stringify
\* gives for a value, or a message of the runtime
Chars(c) == [k |-> "chars", c |-> c]
JsonText(v) == [k |-> "json", v |-> v]
Message(m) == [k |-> "message", m |-> m]

\* the condition of if (text) for a string or undefined
TruthyText(text) == text.some /\ text.v # Chars(<<>>)
----------------------------------------------------------------------------
(* Status snapshots.  A response is what one HTTP request of fetchStatus   *)
(* comes to: it threw (network error, timeout, body not readable), or it   *)
(* returned with response.ok, a status text and a body.  A body is a text  *)
(* that is JSON for a value, or a text that is not JSON.  fetchedAt is     *)
(* left out.                                                               *)

JsonBody(v) == [json |-> TRUE, v |-> v]
TextBody(c) == [json |-> FALSE, c |-> c]

Response(ok, statusText, body) ==
    [threw |-> FALSE, error |-> "", ok |-> ok, statusText |-> statusText,
     body |-> body]
Failed(error) ==
    [threw |-> TRUE, error |-> error, ok |-> FALSE, statusText |-> "",
     body |-> TextBody(<<>>)]

\* the response of a request that is not made: no status url of Inputs
\* includes UserSelfPath or DashboardPath
NoRequest == Failed("")

\* tryParseJson
tryParseJson(payload) == IF payload.json THEN payload.v ELSE JStr(payload.c)

\* extractKnownField
RECURSIVE extractKnownField(_, _)
extractKnownField(source, keys) ==
    IF keys = <<>> THEN None
    ELSE LET value == Get(source, Head(keys))
         IN  IF value.t \in {"undefined", "null"}
             THEN extractKnownField(source, Tail(keys))
             ELSE IF value.t \in {"str", "num", "nan", "bool"}
             THEN Some(Chars(String(value)))
             ELSE Some(JsonText(value))

NoFields == [balance |-> None, usage |-> None, total |-> None, message |-> None]

\* normalizeStatus, the body of the loop for one candidate: found tells
\* whether the loop returns at this candidate
normalizeCandidate(candidate) ==
    LET dataRecord == Get(candidate, "data")
        quotaRecord == Get(dataRecord, "quota")
        field(v) == IF Truthy(v) THEN Some(Chars(String(v))) ELSE None
        quotaOf(v) == IF v.t \in {"num", "nan", "str"} THEN Number(v) ELSE JNum(0)
        usedQuota == quotaOf(Get(dataRecord, "used_quota"))
        remainingQuota == quotaOf(Get(dataRecord, "quota"))
        totalQuota == Plus(usedQuota, remainingQuota)
        balance == extractKnownField(candidate,
                       <<"balance", "availableBalance", "credit", "quotaRemaining">>)
        usage == extractKnownField(candidate,
                       <<"usage", "used", "consumption", "currentUsage", "used_quota">>)
        total == extractKnownField(candidate,
                       <<"total", "totalQuota", "quotaLimit", "limit", "quota">>)
        message == extractKnownField(candidate, <<"message", "error", "detail">>)
    IN  IF ~IsObject(candidate) THEN [found |-> FALSE, fields |-> NoFields]
        ELSE IF HasKey(candidate, "data") /\ IsObject(dataRecord)
                /\ HasKey(dataRecord, "quota") /\ IsObject(quotaRecord)
        THEN [found |-> TRUE,
              fields |-> [balance |-> field(Get(quotaRecord, "quotaRemaining")),
                          usage |-> field(Get(quotaRecord, "currentUsage")),
                          total |-> field(Get(quotaRecord, "quotaLimit")),
                          message |-> None]]
        ELSE IF HasKey(candidate, "data") /\ IsObject(dataRecord)
                /\ HasKey(dataRecord, "usage") /\ HasKey(dataRecord, "balance")
                /\ HasKey(dataRecord, "total")
        THEN [found |-> TRUE,
              fields |-> [balance |-> Some(Chars(String(Get(dataRecord, "balance")))),
                          usage |-> Some(Chars(String(Get(dataRecord, "usage")))),
                          total |-> Some(Chars(String(Get(dataRecord, "total")))),
                          message |-> None]]
        ELSE IF HasKey(candidate, "data") /\ IsObject(dataRecord)
                /\ (HasKey(dataRecord, "used_quota") \/ HasKey(dataRecord, "quota"))
        THEN [found |-> TRUE,
              fields |-> [balance |-> Some(Chars(String(remainingQuota))),
                          usage |-> Some(Chars(String(usedQuota))),
                          total |-> Some(Chars(String(totalQuota))),
                          message |-> None]]
        ELSE IF TruthyText(balance) \/ TruthyText(usage) \/ TruthyText(total)
                \/ TruthyText(message)
        THEN [found |-> TRUE,
              fields |-> [balance |-> balance, usage |-> usage, total |-> total,
                          message |-> message]]
        ELSE [found |-> FALSE, fields |-> NoFields]

RECURSIVE normalizeCandidates(_)
normalizeCandidates(candidates) ==
    IF candidates = <<>> THEN NoFields
    ELSE IF normalizeCandidate(Head(candidates)).found
    THEN normalizeCandidate(Head(candidates)).fields
    ELSE normalizeCandidates(Tail(candidates))

\* normalizeStatus
normalizeStatus(input) ==
    IF ~Truthy(input) THEN NoFields
    ELSE normalizeCandidates(IF input.t = "arr" THEN input.a ELSE <<input>>)

\* the last record taken, whatever its id
maxIdSubscription_Last(subscriptions, from, maxId, best) ==
    IF subscriptions = <<>> THEN best ELSE subscriptions[Len(subscriptions)]

\* merge88CodeData, the loop over the subscriptions from position from on:
\* the record with the largest id so far (Undefined: none yet)
RECURSIVE maxIdSubscription(_, _, _, _)
maxIdSubscription(subscriptions, from, maxId, best) ==
    IF from > Len(subscriptions) THEN best
    ELSE LET sub == subscriptions[from]
             id == IF Get(sub, "id").t = "num" THEN Get(sub, "id").n ELSE 0
         IN  IF Get(sub, "id").t # "nan" /\ id > maxId
             THEN maxIdSubscription(subscriptions, from + 1, id, sub)
             ELSE maxIdSubscription(subscriptions, from + 1, maxId, best)

\* merge88CodeData: whether it throws (reading .id of null), and its result
merge88CodeData(dashboardData, subscriptionData) ==
    LET data == Get(dashboardData, "data")
        overview == Get(data, "overview")
        cost == IF IsNumber(Get(overview, "cost")) THEN Get(overview, "cost")
                ELSE JNum(0)
        listed == /\ IsObject(subscriptionData)
                  /\ HasKey(subscriptionData, "data")
                  /\ Get(subscriptionData, "data").t = "arr"
        subscriptions == IF listed THEN Get(subscriptionData, "data").a ELSE <<>>
        best == maxIdSubscription(subscriptions, 1, -1, Undefined)
        balance == IF IsNumber(Get(best, "currentCredits"))
                   THEN Get(best, "currentCredits") ELSE JNum(0)
    IN  IF \/ ~IsObject(dashboardData)
           \/ ~HasKey(dashboardData, "data") \/ ~IsObject(data)
           \/ ~HasKey(data, "overview") \/ ~IsObject(overview)
        THEN [threw |-> FALSE, v |-> dashboardData]
        ELSE IF \E i \in 1..Len(subscriptions) : subscriptions[i].t = "null"
        THEN [threw |-> TRUE, v |-> Undefined]
        ELSE [threw |-> FALSE,
              v |-> JObj([key \in {"data"} |->
                        JObj([f \in {"usage", "balance", "total"} |->
                                 CASE f = "usage" -> cost
                                   [] f = "balance" -> balance
                                   [] f = "total" -> Plus(cost, balance)])])]

\* text.includes(part)
Includes(text, part) ==
    \E i \in 0..(Len(text) - Len(part)) : SubSeq(text, i + 1, i + Len(part)) = part

UserSelfPath ==
    <<"/", "a", "p", "i", "/", "u", "s", "e", "r", "/", "s", "e", "l",
    "f">>

DashboardPath ==
    <<"8", "8", "c", "o", "d", "e", ".", "o", "r", "g", "/", "a", "d",
    "m", "i", "n", "-", "a", "p", "i", "/", "c", "c", "-", "a", "d", "m",
    "i", "n", "/", "u", "s", "e", "r", "/", "d", "a", "s", "h", "b", "o",
    "a", "r", "d">>

\* the message kept when the response is ok
messageOf_Always(response, fields) ==
    IF fields.message.some THEN fields.message
    ELSE Some(Message(response.statusText))

\* fetchStatus: response.ok ? undefined : normalized.message ?? response.statusText
messageOf(response, fields) ==
    IF response.ok THEN None
    ELSE IF fields.message.some THEN fields.message
    ELSE Some(Message(response.statusText))

\* the catch block reporting success
fetchStatus_FailureAsOk(config, response, statusResponse, subscriptionResponse) ==
    [ok |-> TRUE, balance |-> None, usage |-> None, total |-> None,
     quotaPerUnit |-> None, message |-> Some(Message(response.error)),
     rawText |-> None]

\* fetchStatus: response is what the request to the status url comes to,
\* statusResponse and subscriptionResponse what the requests to the
\* /api/status and the subscription urls come to, when they are made
fetchStatus(config, response, statusResponse, subscriptionResponse) ==
    LET url == config.status.v.url.v
        parsed == tryParseJson(response.body)
        normalized == normalizeStatus(parsed)
        statusData == tryParseJson(statusResponse.body)
        perUnit == Get(Get(statusData, "data"), "quota_per_unit")
        quotaPerUnit ==
            IF /\ Includes(url, UserSelfPath)
               /\ ~statusResponse.threw /\ statusResponse.ok
               /\ Truthy(statusData) /\ IsObject(statusData)
               /\ HasKey(statusData, "data") /\ IsObject(Get(statusData, "data"))
               /\ perUnit.t = "num"
            THEN Some(perUnit.n)
            ELSE None
        merged == merge88CodeData(parsed, tryParseJson(subscriptionResponse.body))
        mergedNormalized == normalizeStatus(merged.v)
        rawText == IF parsed.t = "str" THEN Chars(parsed.s) ELSE JsonText(parsed)
    IN  IF ~config.status.some \/ Falsy(config.status.v.url)
        THEN [ok |-> FALSE, balance |-> None, usage |-> None, total |-> None,
              quotaPerUnit |-> None, message |-> Some(Message("notConfigured")),
              rawText |-> None]
        ELSE IF response.threw
        THEN [ok |-> FALSE, balance |-> None, usage |-> None, total |-> None,
              quotaPerUnit |-> None, message |-> Some(Message(response.error)),
              rawText |-> None]
        ELSE IF /\ Includes(url, DashboardPath)
                /\ ~subscriptionResponse.threw /\ subscriptionResponse.ok
                /\ ~merged.threw
        THEN [ok |-> response.ok, balance |-> mergedNormalized.balance,
              usage |-> mergedNormalized.usage, total |-> mergedNormalized.total,
              quotaPerUnit |-> Some(1), message |-> messageOf(response, mergedNormalized),
              rawText |-> Some(rawText)]
        ELSE [ok |-> response.ok, balance |-> normalized.balance,
              usage |-> normalized.usage, total |-> normalized.total,
              quotaPerUnit |-> quotaPerUnit, message |-> messageOf(response, normalized),
              rawText |-> Some(rawText)]

\* the cache after refreshStatus on the records at positions from..Len(cs),
\* one after the other, resps[i] being the response to record i's request
RECURSIVE refreshFrom(_, _, _, _)
refreshFrom(cs, cache, resps, from) ==
    IF from > Len(cs) THEN cache
    ELSE refreshFrom(cs,
                     [i \in DOMAIN cache \cup {cs[from].id} |->
                         IF i = cs[from].id
                         THEN fetchStatus(cs[from], resps[from], NoRequest, NoRequest)
                         ELSE cache[i]],
                     resps, from + 1)

----------------------------------------------------------------------------
(* The redacted view *)

\* the key passed on in place of the base URL
SafeEndpointSummary_LeaksKey(endpoint, isActive) ==
    IF endpoint.some
    THEN Some([baseUrl |-> endpoint.v.apiKey,
               hasCredentials |-> endpoint.v.apiKey # "",
               isActive |-> isActive])
    ELSE None

SafeEndpointSummary(endpoint, isActive) ==
    IF endpoint.some
    THEN Some([baseUrl |-> endpoint.v.baseUrl,
               hasCredentials |-> endpoint.v.apiKey # "",
               isActive |-> isActive])
    ELSE None

\* getSafeConfigs
getSafeConfigs(cs, aClaude, aCodex, cache) ==
    LET claudeEndpoint(config) ==
            IF config.claude.some THEN parseClaudeConfig(config.claude.v) ELSE None
        codexEndpoint(config) ==
            IF config.codex.some THEN parseCodexConfig(config.codex.v) ELSE None
        SafeProviderConfig(config) ==
            [id |-> config.id,
             name |-> config.name,
             website |-> config.website,
             claude |-> SafeEndpointSummary(claudeEndpoint(config),
                                            config.id = aClaude),
             codex |-> SafeEndpointSummary(codexEndpoint(config),
                                           config.id = aCodex),
             hasStatusConfig |-> config.status.some /\ ~Falsy(config.status.v.url),
             lastStatus |-> IF config.id \in DOMAIN cache
                            THEN Some(cache[config.id]) ELSE None]
    IN  [i \in 1..Len(cs) |-> SafeProviderConfig(cs[i])]

\* getSafeConfigs of the current state
SafeConfigs == getSafeConfigs(configs, activeClaudeId, activeCodexId, statusCache)

----------------------------------------------------------------------------
(* The inputs the operations are tried on *)

\* ~/.claude/settings.json texts (a2: the identity of a, another text)
SettingsJsonTexts ==
    [a |-> JsonDoc(FALSE, "obj", "https://a.com", "sk-1", "a"),
     aPadded |-> JsonDoc(TRUE, "obj", "https://a.com", "sk-1", "a"),
     a2 |-> JsonDoc(FALSE, "obj", "https://a.com", "sk-1", "b"),
     b |-> JsonDoc(FALSE, "obj", "https://b.com", "sk-1", "a"),
     notJson |-> JsonDoc(FALSE, "bad", "", "", "a"),
     noToken |-> JsonDoc(FALSE, "obj", "https://a.com", "", "a"),
     blank |-> JsonDoc(TRUE, "blank", "", "", "a")]

\* ~/.codex/auth.json texts
AuthJsonTexts ==
    [k |-> JsonDoc(FALSE, "obj", "", "sk-2", "a"),
     kPadded |-> JsonDoc(TRUE, "obj", "", "sk-2", "a"),
     k2 |-> JsonDoc(FALSE, "obj", "", "sk-2", "b"),
     notJson |-> JsonDoc(FALSE, "bad", "", "", "a"),
     noKey |-> JsonDoc(FALSE, "obj", "", "", "a")]

\* ~/.codex/config.toml texts
ConfigTomlTexts ==
    [table |-> <<TomlLine("mp", "p", FALSE), TomlLine("blank", "", FALSE),
                 TomlLine("hdr", "p", FALSE), TomlLine("url", "https://b.com", FALSE),
                 TomlLine("key", "wire_api", FALSE)>>,
     root |-> <<TomlLine("url", "https://b.com", FALSE)>>,
     rootPadded |-> <<TomlLine("blank", "", FALSE), TomlLine("url", "https://b.com", TRUE),
                      TomlLine("blank", "", FALSE)>>,
     noBaseUrl |-> <<TomlLine("mp", "p", FALSE), TomlLine("hdr", "p", FALSE),
                     TomlLine("key", "wire_api", FALSE)>>,
     blank |-> <<TomlLine("blank", "", FALSE)>>]

Claude(doc) == Some([settingsJson |-> doc])
Codex(auth, toml) == Some([authJson |-> auth, configToml |-> toml])

StatusBlock(url, authorization, userId, cookie) ==
    Some([url |-> url, authorization |-> authorization, userId |-> userId,
          cookie |-> cookie])

Input(name, website, status, claude, codex) ==
    [name |-> name, website |-> website, status |-> status, claude |-> claude,
     codex |-> codex]

\* the inputs that pass validation (given a free name)
ValidInputs ==
    { Input(<<" ", "X", " ">>, Some(<<"w", " ">>),
            StatusBlock(Some(<<"s", " ">>), Some(<<"t">>), None, Some(<<" ", "c">>)),
            Claude(SettingsJsonTexts.aPadded), None),
      Input(<<"X">>, None, StatusBlock(Some(<<" ">>), None, Some(<<>>), None),
            Claude(SettingsJsonTexts.a), Codex(AuthJsonTexts.k, ConfigTomlTexts.table)),
      Input(<<"X">>, None, None, Claude(SettingsJsonTexts.b), Codex(AuthJsonTexts.k, ConfigTomlTexts.table)),
      Input(<<"x">>, None, None, None, Codex(AuthJsonTexts.kPadded, ConfigTomlTexts.table)),
      Input(<<"x">>, None, None, Claude(SettingsJsonTexts.a), Codex(AuthJsonTexts.k, ConfigTomlTexts.rootPadded)) }

\* the inputs that validation rejects
InvalidInputs ==
    { Input(<<"X">>, None, None, None, None),
      Input(<<"X">>, None, None, Claude(SettingsJsonTexts.notJson), None),
      Input(<<"X">>, None, None, None, Codex(AuthJsonTexts.k, ConfigTomlTexts.noBaseUrl)),
      Input(<<" ">>, None, None, Claude(SettingsJsonTexts.a), None),
      Input(<<" ">>, None, None, None, None),
      Input(<<"X">>, None, None, Claude(SettingsJsonTexts.noToken), None),
      Input(<<"x">>, None, None, None, Codex(AuthJsonTexts.notJson, ConfigTomlTexts.table)) }

Inputs == ValidInputs \cup InvalidInputs

\* the ids an operation may be called with
Ids == 1..MaxIds

ProviderTypes == {"claude", "codex"}

\* what the HTTP request of a status query may come to: a network error or
\* timeout, 200 with a JSON body, 200 with a body that is not JSON
Responses ==
    { Failed("fetch failed"),
      Response(TRUE, "OK", JsonBody(JObj([key \in {"data"} |->
                               JObj([f \in {"used_quota", "quota"} |->
                                        IF f = "quota" THEN JNum(400) ELSE JNum(100)])]))),
      Response(TRUE, "OK", TextBody(<<"x">>)) }

\* settings.json, auth.json and config.toml as found in the home directory
\* when the extension is first started
InitialExternalFiles ==
    { <<None, None, None>>,
      <<Some(SettingsJsonTexts.a2), Some(AuthJsonTexts.k2), Some(ConfigTomlTexts.root)>>,
      <<Some(SettingsJsonTexts.notJson), Some(AuthJsonTexts.notJson), Some(ConfigTomlTexts.root)>> }

----------------------------------------------------------------------------
(* The state machine *)

EmptyCache == [i \in {} |-> None]

\* what a call came to: the error it threw ("none": it returned) and, for
\* updateConfig, the value it returned
Outcome(op, err, ret) == [op |-> op, err |-> err, ret |-> ret]

\* a call without an id and an endpoint type
NoArg == [id |-> NoId, type |-> "none"]

\* the sidebar has not been opened: main.js has not run (its state object),
\* no message is under way; received are the messages whose handlers have
\* started, answered those among them a state message has been posted
\* for, errors those showErrorMessage has been called for
NoWebview ==
    [open |-> FALSE, loading |-> FALSE, refreshing |-> FALSE, configs |-> <<>>,
     templates |-> FALSE, posted |-> 0, toHost |-> <<>>, toView |-> <<>>,
     received |-> {}, answered |-> {}, errors |-> {}]

\* new ConfigManager(homeDir), before init()
Init ==
    /\ phase = "new"
    /\ configs = <<>>
    /\ statusCache = EmptyCache
    /\ activeClaudeId = NoId
    /\ activeCodexId = NoId
    /\ nextId = 1
    /\ disk \in {AbsentFile, BadFile, NoArrayFile}
    /\ \E f \in InitialExternalFiles :
           extClaude = f[1] /\ extCodexAuth = f[2] /\ extCodexToml = f[3]
    /\ last = Outcome("new", "none", FALSE)
    /\ arg = NoArg
    /\ inflight = {}
    /\ calc = [fn |-> "none", in |-> <<>>, done |-> TRUE, out |-> <<>>]
    /\ webview = NoWebview

\* nothing is written: settings.json does not exist afterwards
writeClaudeConfig_NoFile(config) == None

\* writeClaudeConfig: settings.json afterwards
writeClaudeConfig(config) == Some(config.settingsJson)

\* writeCodexConfig: auth.json and config.toml afterwards
writeCodexConfig(config) == <<Some(config.authJson), Some(config.configToml)>>

\* init(): load, detectActiveConfigs, refreshAll
Initialize ==
    /\ phase = "new"
    /\ LET loaded == load(disk)
       IN  /\ configs' = loaded.configs
           /\ activeClaudeId' = detectActiveClaude(loaded.configs, activeClaudeId, extClaude)
           /\ activeCodexId' = detectActiveCodex(loaded.configs, activeCodexId,
                                                 extCodexAuth, extCodexToml)
           /\ \E resps \in [1..Len(loaded.configs) -> Responses] :
                  statusCache' = refreshFrom(loaded.configs, statusCache, resps, 1)
           /\ last' = Outcome("init", IF loaded.threw THEN "loadFailed" ELSE "none", FALSE)
    /\ phase' = "returned"
    /\ UNCHANGED <<nextId, disk, extVars, arg, auxVars>>

\* the extension host stops and a new ConfigManager is constructed over the
\* same home directory
Restart ==
    /\ phase = "ready"
    /\ phase' = "new"
    /\ configs' = <<>>
    /\ statusCache' = EmptyCache
    /\ activeClaudeId' = NoId
    /\ activeCodexId' = NoId
    /\ last' = Outcome("new", "none", FALSE)
    /\ UNCHANGED <<nextId, disk, extVars, arg, auxVars>>

\* a call is made on the initialized store, and runs until it returns or throws
CalledWith(id, type) ==
    /\ phase = "ready" /\ phase' = "returned"
    /\ arg' = [id |-> id, type |-> type]
    /\ UNCHANGED auxVars

\* the caller has seen the outcome of the call; the store awaits the next one
Return ==
    /\ phase = "returned"
    /\ phase' = "ready"
    /\ last' = Outcome("none", "none", FALSE)
    /\ arg' = NoArg
    /\ UNCHANGED <<memVars, nextId, disk, extVars, auxVars>>

\* the store file rewritten on the way out of a call that throws
Throws_Persisted(op, err) ==
    /\ last' = Outcome(op, err, FALSE)
    /\ disk' = persist(configs)
    /\ UNCHANGED <<memVars, nextId, extVars>>

\* a call that throws before it changes anything
Throws(op, err) ==
    /\ last' = Outcome(op, err, FALSE)
    /\ UNCHANGED <<memVars, nextId, disk, extVars>>

\* every record gets the same id
NewConfig_SameId(newId, payload) ==
    [id |-> 1, name |-> payload.name, website |-> payload.website,
     status |-> payload.status, claude |-> payload.claude, codex |-> payload.codex]

\* the record addConfig pushes
NewConfig(newId, payload) ==
    [id |-> newId, name |-> payload.name, website |-> payload.website,
     status |-> payload.status, claude |-> payload.claude, codex |-> payload.codex]

\* addConfig
AddConfig(input) ==
    /\ CalledWith(NoId, "none")
    /\ LET r == normalizeInput(input)
       IN  IF r.err # "none" THEN Throws("add", r.err)
           ELSE IF ensureUniqueName(configs, r.payload.v.name, NoId)
           THEN Throws("add", "nameExists")
           ELSE /\ nextId <= MaxIds
                /\ LET newId == nextId
                       cs == Append(configs, NewConfig(newId, r.payload.v))
                   IN  /\ configs' = cs
                       /\ disk' = persist(cs)
                       /\ activeClaudeId' =
                              detectClaudeForId(cs, newId, activeClaudeId, extClaude)
                       /\ activeCodexId' =
                              detectCodexForId(cs, newId, activeCodexId,
                                               extCodexAuth, extCodexToml)
                /\ nextId' = nextId + 1
                /\ last' = Outcome("add", "none", FALSE)
                /\ UNCHANGED <<statusCache, extVars>>

\* the Codex comparison left out
needsReload_ClaudeOnly(target, payload, aClaude, aCodex) ==
    /\ aClaude = target.id /\ target.claude.some /\ payload.claude.some
    /\ target.claude.v.settingsJson # payload.claude.v.settingsJson

\* updateConfig: does the edit change the content of an endpoint the record
\* is active for
needsReload(target, payload, aClaude, aCodex) ==
    \/ /\ aClaude = target.id /\ target.claude.some /\ payload.claude.some
       /\ target.claude.v.settingsJson # payload.claude.v.settingsJson
    \/ /\ aCodex = target.id /\ target.codex.some /\ payload.codex.some
       /\ \/ target.codex.v.authJson # payload.codex.v.authJson
          \/ target.codex.v.configToml # payload.codex.v.configToml

\* the flag is kept when the endpoint is gone
flagAfterAssign_Kept(cur, id, endpoint) == cur

\* updateConfig: the active flag of an endpoint type after Object.assign,
\* `endpoint` being the record's endpoint of that type
flagAfterAssign(cur, id, endpoint) ==
    IF cur = id /\ ~endpoint.some THEN NoId ELSE cur

\* updateConfig: is the endpoint's external file written
hotWrite(reload, cur, id, endpoint) == reload /\ cur = id /\ endpoint.some

\* updateConfig
UpdateConfig(id, input) ==
    /\ CalledWith(id, "none")
    /\ LET k == IndexOfId(configs, id)
           r == normalizeInput(input)
       IN  IF k = 0 THEN Throws("update", "notFound")
           ELSE IF r.err # "none" THEN Throws("update", r.err)
           ELSE IF ensureUniqueName(configs, r.payload.v.name, configs[k].id)
           THEN Throws("update", "nameExists")
           ELSE LET target == configs[k]
                    reload == needsReload(target, r.payload.v, activeClaudeId,
                                          activeCodexId)
                    assigned == NewConfig(target.id, r.payload.v)
                    cs == [configs EXCEPT ![k] = assigned]
                    aClaude == flagAfterAssign(activeClaudeId, target.id, assigned.claude)
                    aCodex == flagAfterAssign(activeCodexId, target.id, assigned.codex)
                    claudeFile == IF hotWrite(reload, aClaude, target.id, assigned.claude)
                                  THEN writeClaudeConfig(assigned.claude.v)
                                  ELSE extClaude
                    codexFiles == IF hotWrite(reload, aCodex, target.id, assigned.codex)
                                  THEN writeCodexConfig(assigned.codex.v)
                                  ELSE <<extCodexAuth, extCodexToml>>
                IN  /\ configs' = cs
                    /\ disk' = persist(cs)
                    /\ extClaude' = claudeFile
                    /\ extCodexAuth' = codexFiles[1]
                    /\ extCodexToml' = codexFiles[2]
                    /\ activeClaudeId' =
                           detectClaudeForId(cs, target.id, aClaude, claudeFile)
                    /\ activeCodexId' =
                           detectCodexForId(cs, target.id, aCodex, codexFiles[1],
                                            codexFiles[2])
                    /\ last' = Outcome("update", "none", reload)
                    /\ UNCHANGED <<statusCache, nextId>>

\* this.data.configs.filter((item) => item.id !== id)
RECURSIVE withoutId(_, _)
withoutId(cs, id) ==
    IF cs = <<>> THEN cs
    ELSE IF Head(cs).id = id THEN withoutId(Tail(cs), id)
    ELSE <<Head(cs)>> \o withoutId(Tail(cs), id)

\* the flag is left as it was
flagAfterDelete_Kept(cur, id) == cur

\* deleteConfig: an active flag afterwards
flagAfterDelete(cur, id) == IF cur = id THEN NoId ELSE cur

\* deleteConfig; this.data.configs = this.data.configs.filter(...): a
\* refreshAll loop in progress goes on over the array it started on
DeleteConfig(id) ==
    /\ phase = "ready" /\ phase' = "returned"
    /\ arg' = [id |-> id, type |-> "none"]
    /\ inflight' = IF IndexOfId(configs, id) = 0 THEN inflight
                   ELSE {IF call.all /\ call.live
                         THEN [call EXCEPT !.live = FALSE, !.list = configs]
                         ELSE call : call \in inflight}
    /\ UNCHANGED <<calc, webview>>
    /\ IF IndexOfId(configs, id) = 0 THEN Throws("delete", "notFound")
       ELSE /\ configs' = withoutId(configs, id)
            /\ statusCache' = [i \in DOMAIN statusCache \ {id} |-> statusCache[i]]
            /\ activeClaudeId' = flagAfterDelete(activeClaudeId, id)
            /\ activeCodexId' = flagAfterDelete(activeCodexId, id)
            /\ disk' = persist(withoutId(configs, id))
            /\ last' = Outcome("delete", "none", FALSE)
            /\ UNCHANGED <<nextId, extVars>>

\* the record made the only active one: the flag of the other endpoint
\* type is cleared
SetActiveConfig_ClearsOther(providerId, type) ==
    /\ CalledWith(providerId, type)
    /\ LET k == IndexOfId(configs, providerId)
       IN  IF k = 0 THEN Throws("setActive", "notFound")
           ELSE IF type = "claude"
           THEN IF ~configs[k].claude.some THEN Throws("setActive", "noClaude")
                ELSE /\ activeClaudeId' = providerId
                     /\ activeCodexId' = NoId
                     /\ extClaude' = Some(configs[k].claude.v.settingsJson)
                     /\ last' = Outcome("setActive", "none", FALSE)
                     /\ UNCHANGED <<configs, statusCache, nextId, disk, extCodexAuth,
                                    extCodexToml>>
           ELSE IF ~configs[k].codex.some THEN Throws("setActive", "noCodex")
                ELSE /\ activeCodexId' = providerId
                     /\ activeClaudeId' = NoId
                     /\ extCodexAuth' = Some(configs[k].codex.v.authJson)
                     /\ extCodexToml' = Some(configs[k].codex.v.configToml)
                     /\ last' = Outcome("setActive", "none", FALSE)
                     /\ UNCHANGED <<configs, statusCache, nextId, disk, extClaude>>

\* the early return taken whenever some record is active
alreadyActive_AnyActive(cur, providerId) == cur # NoId

\* setActiveConfig: does it return before writing (the record is already
\* the active one)
alreadyActive(cur, providerId) == cur = providerId

\* setActiveConfig
SetActiveConfig(providerId, type) ==
    /\ CalledWith(providerId, type)
    /\ LET k == IndexOfId(configs, providerId)
       IN  IF k = 0 THEN Throws("setActive", "notFound")
           ELSE IF type = "claude"
           THEN IF ~configs[k].claude.some THEN Throws("setActive", "noClaude")
                ELSE /\ IF alreadyActive(activeClaudeId, providerId)
                        THEN UNCHANGED <<activeClaudeId, extClaude>>
                        ELSE /\ activeClaudeId' = providerId
                             /\ extClaude' = writeClaudeConfig(configs[k].claude.v)
                     /\ last' = Outcome("setActive", "none", FALSE)
                     /\ UNCHANGED <<configs, statusCache, activeCodexId, nextId,
                                    disk, extCodexAuth, extCodexToml>>
           ELSE IF ~configs[k].codex.some THEN Throws("setActive", "noCodex")
                ELSE /\ IF alreadyActive(activeCodexId, providerId)
                        THEN UNCHANGED <<activeCodexId, extCodexAuth, extCodexToml>>
                        ELSE /\ activeCodexId' = providerId
                             /\ extCodexAuth' = writeCodexConfig(configs[k].codex.v)[1]
                             /\ extCodexToml' = writeCodexConfig(configs[k].codex.v)[2]
                     /\ last' = Outcome("setActive", "none", FALSE)
                     /\ UNCHANGED <<configs, statusCache, activeClaudeId, nextId,
                                    disk, extClaude>>

\* refreshStatus
RefreshStatus(providerId, resp) ==
    /\ CalledWith(providerId, "none")
    /\ LET k == IndexOfId(configs, providerId)
       IN  IF k = 0 THEN Throws("refreshStatus", "notFound")
           ELSE /\ statusCache' = [i \in DOMAIN statusCache \cup {providerId} |->
                                      IF i = providerId
                                      THEN fetchStatus(configs[k], resp, NoRequest,
                                                       NoRequest)
                                      ELSE statusCache[i]]
                /\ last' = Outcome("refreshStatus", "none", FALSE)
                /\ UNCHANGED <<configs, activeClaudeId, activeCodexId, nextId,
                               disk, extVars>>

\* refreshAll
RefreshAll ==
    /\ CalledWith(NoId, "none")
    /\ \E resps \in [1..Len(configs) -> Responses] :
           statusCache' = refreshFrom(configs, statusCache, resps, 1)
    /\ last' = Outcome("refreshAll", "none", FALSE)
    /\ UNCHANGED <<configs, activeClaudeId, activeCodexId, nextId, disk, extVars>>

Next ==
    \/ Initialize
    \/ Restart
    \/ Return
    \/ \E input \in Inputs : AddConfig(input)
    \/ \E id \in Ids, input \in Inputs : UpdateConfig(id, input)
    \/ \E id \in Ids : DeleteConfig(id)
    \/ \E id \in Ids, type \in ProviderTypes : SetActiveConfig(id, type)
    \/ \E id \in Ids, resp \in Responses : RefreshStatus(id, resp)
    \/ RefreshAll

Spec == Init /\ [][Next]_vars

----------------------------------------------------------------------------
(* Handlers that interleave.  The presentation layer starts the handler of *)
(* each message without waiting for the previous one, so a call suspended  *)
(* on an await leaves the store open to other calls.  Here refreshStatus   *)
(* and refreshAll are split at the await of the HTTP request; the other    *)
(* calls run as before.  A record without a status url takes no request:   *)
(* its snapshot is cached without the call being suspended.                *)

\* a call suspended on the request for the record config: a refreshStatus
\* call, or (all) a refreshAll call at position pos of the array it iterates,
\* which is this.data.configs (live) or the array list that deleteConfig
\* has replaced since; since is the next id when the loop began
Suspended(config, all, pos, since) ==
    [id |-> config.id, config |-> config, all |-> all, pos |-> pos,
     live |-> TRUE, list |-> <<>>, since |-> since]

\* refreshStatus up to the await in fetchStatus: the record is found and
\* its status url read, the request is sent
BeginRefresh(providerId) ==
    /\ phase = "ready"
    /\ Cardinality(inflight) < MaxInflight
    /\ LET k == IndexOfId(configs, providerId)
       IN  /\ k # 0
           /\ configs[k].status.some /\ ~Falsy(configs[k].status.v.url)
           /\ inflight' = inflight \cup {Suspended(configs[k], FALSE, 0, 0)}
    /\ UNCHANGED <<phase, memVars, nextId, disk, extVars, last, arg, calc, webview>>

\* refreshStatus from the await on: the request has come to resp, the
\* snapshot is put in the cache under the id the call was made with
CompleteRefresh(providerId, resp) ==
    /\ phase = "ready"
    /\ \E call \in inflight :
           /\ ~call.all
           /\ call.id = providerId
           /\ inflight' = inflight \ {call}
           /\ statusCache' = [i \in DOMAIN statusCache \cup {providerId} |->
                                 IF i = providerId
                                 THEN fetchStatus(call.config, resp, NoRequest,
                                                  NoRequest)
                                 ELSE statusCache[i]]
    /\ phase' = "returned"
    /\ last' = Outcome("refreshStatus", "none", FALSE)
    /\ arg' = [id |-> providerId, type |-> "none"]
    /\ UNCHANGED <<configs, activeClaudeId, activeCodexId, nextId, disk, extVars,
                   calc, webview>>

\* the records without a status url skipped uncached
RECURSIVE refreshAllFrom_SkipsUnconfigured(_, _, _, _)
refreshAllFrom_SkipsUnconfigured(array, cs, cache, from) ==
    IF from > Len(array) THEN [cache |-> cache, pos |-> 0, threw |-> FALSE]
    ELSE LET k == IndexOfId(cs, array[from].id)
         IN  IF k = 0 THEN [cache |-> cache, pos |-> 0, threw |-> TRUE]
             ELSE IF cs[k].status.some /\ ~Falsy(cs[k].status.v.url)
             THEN [cache |-> cache, pos |-> from, threw |-> FALSE]
             ELSE refreshAllFrom_SkipsUnconfigured(array, cs, cache, from + 1)

\* refreshAll, the loop from position from of the array on, up to the next
\* await of a request: refreshStatus looks the record up in the store cs
\* and throws when it is gone; a record without a status url is cached at
\* once; pos is the position of the record whose request is sent (0: the
\* loop has ended)
RECURSIVE refreshAllFrom(_, _, _, _)
refreshAllFrom(array, cs, cache, from) ==
    IF from > Len(array) THEN [cache |-> cache, pos |-> 0, threw |-> FALSE]
    ELSE LET k == IndexOfId(cs, array[from].id)
         IN  IF k = 0 THEN [cache |-> cache, pos |-> 0, threw |-> TRUE]
             ELSE IF cs[k].status.some /\ ~Falsy(cs[k].status.v.url)
             THEN [cache |-> cache, pos |-> from, threw |-> FALSE]
             ELSE refreshAllFrom(array, cs,
                                 [i \in DOMAIN cache \cup {cs[k].id} |->
                                     IF i = cs[k].id
                                     THEN fetchStatus(cs[k], NoRequest, NoRequest,
                                                      NoRequest)
                                     ELSE cache[i]],
                                 from + 1)

\* refreshAll up to its first await of a request, or to its end when no
\* record has a status url
BeginRefreshAll ==
    /\ phase = "ready"
    /\ Cardinality(inflight) < MaxInflight
    /\ LET run == refreshAllFrom(configs, configs, statusCache, 1)
       IN  /\ statusCache' = run.cache
           /\ IF run.pos = 0
              THEN /\ phase' = "returned"
                   /\ last' = Outcome("refreshAll", "none", FALSE)
                   /\ UNCHANGED inflight
              ELSE /\ inflight' =
                          inflight \cup {Suspended(configs[run.pos], TRUE, run.pos,
                                                   nextId)}
                   /\ UNCHANGED <<phase, last>>
    /\ UNCHANGED <<configs, activeClaudeId, activeCodexId, nextId, disk, extVars,
                   arg, calc, webview>>

\* refreshAll from an await on: the request has come to resp, the snapshot
\* is cached, and the loop goes on to the next await, to its end, or to
\* the record that is no longer stored
ContinueRefreshAll(resp) ==
    /\ phase = "ready"
    /\ \E call \in inflight :
           /\ call.all
           /\ \E array \in {IF call.live THEN configs ELSE call.list} :
              \E run \in {refreshAllFrom(
                              array, configs,
                              [i \in DOMAIN statusCache \cup {call.id} |->
                                  IF i = call.id
                                  THEN fetchStatus(call.config, resp, NoRequest,
                                                   NoRequest)
                                  ELSE statusCache[i]],
                              call.pos + 1)} :
                  /\ statusCache' = run.cache
                  /\ IF run.pos = 0
                     THEN /\ inflight' = inflight \ {call}
                          /\ phase' = "returned"
                          /\ last' = Outcome("refreshAll",
                                             IF run.threw THEN "notFound" ELSE "none",
                                             FALSE)
                     ELSE /\ inflight' =
                                 (inflight \ {call})
                                 \cup {[call EXCEPT
                                          !.id = array[run.pos].id,
                                          !.config = configs[IndexOfId(configs,
                                                         array[run.pos].id)],
                                          !.pos = run.pos]}
                          /\ UNCHANGED <<phase, last>>
    /\ UNCHANGED <<configs, activeClaudeId, activeCodexId, nextId, disk, extVars,
                   arg, calc, webview>>

NextAsync ==
    \/ Initialize
    \/ Return
    \/ \E input \in ValidInputs
                     \cup {Input(<<"x">>, None,
                                 StatusBlock(Some(<<"s">>), None, None, None),
                                 Claude(SettingsJsonTexts.a), None)} :
           AddConfig(input)
    \/ \E id \in Ids : DeleteConfig(id)
    \/ \E id \in Ids : BeginRefresh(id)
    \/ \E id \in Ids, resp \in Responses : CompleteRefresh(id, resp)
    \/ BeginRefreshAll
    \/ \E resp \in Responses : ContinueRefreshAll(resp)

SpecAsync == Init /\ [][NextAsync]_vars

----------------------------------------------------------------------------
(* Mutating handlers that interleave.  addConfig, deleteConfig and         *)
(* setActiveConfig are split at their awaits: the write of the store file  *)
(* (persist), the reads of detectActiveConfigForId and the writes of       *)
(* writeClaudeConfig / writeCodexConfig.  A handler runs from one await to *)
(* the next without interruption; which of the suspended handlers goes on  *)
(* next is open, since the file operations of different calls are not      *)
(* ordered among themselves (fs.promises, no lock).  A file is read when   *)
(* the handler resumes and a write has taken effect when the handler       *)
(* resumes; the waits for mkdir are part of the wait for the write that    *)
(* follows.  The paths that throw before the first await are those of the  *)
(* store above.                                                            *)

\* at most this many handlers are suspended at a time
MaxOverlap == 2

\* a suspended handler: the call op(id, type), the await pc it is suspended
\* on, the record it holds (const config = ...find(...)) and the text
\* handed to writeFile for the store file (JSON.stringify(this.data));
\* after is the id of a setActiveConfig call of the same type that has
\* returned while this one was suspended (kept for the properties only)
Task(op, id, type, pc, config, text) ==
    [op |-> op, id |-> id, type |-> type, pc |-> pc, config |-> config,
     text |-> text, after |-> NoId]

\* addConfig up to the await in persist: the record is pushed, the store is
\* serialized and the write of the store file begun
StartAdd(input) ==
    /\ phase = "ready"
    /\ Cardinality(inflight) < MaxOverlap
    /\ nextId <= MaxIds
    /\ \E r \in {normalizeInput(input)} :
           /\ r.err = "none"
           /\ ~ensureUniqueName(configs, r.payload.v.name, NoId)
           /\ \E cs \in {Append(configs, NewConfig(nextId, r.payload.v))} :
                  /\ configs' = cs
                  /\ inflight' = inflight \cup {Task("add", nextId, "none", "persist",
                                                     None, Some(persist(cs)))}
    /\ nextId' = nextId + 1
    /\ UNCHANGED <<phase, statusCache, activeClaudeId, activeCodexId, disk, extVars,
                   last, arg, calc, webview>>

\* deleteConfig up to the await in persist
StartDelete(id) ==
    /\ phase = "ready"
    /\ Cardinality(inflight) < MaxOverlap
    /\ IndexOfId(configs, id) # 0
    /\ configs' = withoutId(configs, id)
    /\ statusCache' = [i \in DOMAIN statusCache \ {id} |-> statusCache[i]]
    /\ activeClaudeId' = flagAfterDelete(activeClaudeId, id)
    /\ activeCodexId' = flagAfterDelete(activeCodexId, id)
    /\ inflight' = inflight \cup {Task("delete", id, "none", "persist", None,
                                       Some(persist(withoutId(configs, id))))}
    /\ UNCHANGED <<phase, nextId, disk, extVars, last, arg, calc, webview>>

\* setActiveConfig up to the awaits of the write function: the flag is set,
\* then the write is begun; a record that is already the active one makes
\* the call return at once.  No two calls with the same arguments are
\* under way at a time
StartSetActive(providerId, type) ==
    /\ phase = "ready"
    /\ Cardinality(inflight) < MaxOverlap
    /\ \A task \in inflight :
           ~(task.op = "setActive" /\ task.id = providerId /\ task.type = type)
    /\ \E k \in {IndexOfId(configs, providerId)} :
           /\ k # 0
           /\ IF type = "claude" THEN configs[k].claude.some ELSE configs[k].codex.some
           /\ IF alreadyActive(IF type = "claude" THEN activeClaudeId
                               ELSE activeCodexId, providerId)
              THEN /\ phase' = "returned"
                   /\ last' = Outcome("setActive", "none", FALSE)
                   /\ arg' = [id |-> providerId, type |-> type]
                   /\ UNCHANGED <<activeClaudeId, activeCodexId, inflight>>
              ELSE /\ activeClaudeId' = IF type = "claude" THEN providerId
                                        ELSE activeClaudeId
                   /\ activeCodexId' = IF type = "codex" THEN providerId
                                       ELSE activeCodexId
                   /\ inflight' =
                          inflight \cup {Task("setActive", providerId, type,
                                              IF type = "claude" THEN "writeClaude"
                                              ELSE "writeAuth",
                                              Some(configs[k]), None)}
                   /\ UNCHANGED <<phase, last, arg>>
    /\ UNCHANGED <<configs, statusCache, nextId, disk, extVars, calc, webview>>

\* a handler resumes after persist: the store file holds the text that was
\* handed to writeFile.  deleteConfig returns; addConfig goes on into
\* detectActiveConfigForId, which looks the record up and returns, or
\* begins to read the first external file of an endpoint the record has
Persisted ==
    /\ phase = "ready"
    /\ \E task \in inflight :
           /\ task.pc = "persist"
           /\ disk' = task.text.v
           /\ \E k \in {IF task.op = "add" THEN IndexOfId(configs, task.id) ELSE 0} :
                  IF k # 0 /\ (configs[k].claude.some \/ configs[k].codex.some)
                  THEN /\ inflight' =
                              (inflight \ {task})
                              \cup {[task EXCEPT
                                       !.pc = IF configs[k].claude.some
                                              THEN "readClaude" ELSE "readCodex",
                                       !.config = Some(configs[k])]}
                       /\ UNCHANGED <<phase, last, arg>>
                  ELSE /\ inflight' = inflight \ {task}
                       /\ phase' = "returned"
                       /\ last' = Outcome(task.op, "none", FALSE)
                       /\ arg' = [id |-> task.id, type |-> "none"]
    /\ UNCHANGED <<configs, statusCache, activeClaudeId, activeCodexId, nextId,
                   extVars, calc, webview>>

\* detectActiveConfigForId resumes after the read(s) of an endpoint type:
\* the record it holds is compared with what was read and the flag of that
\* type set or cleared; then the files of the Codex endpoint are read, or
\* the call returns
Detected ==
    /\ phase = "ready"
    /\ \E task \in inflight :
           /\ task.pc \in {"readClaude", "readCodex"}
           /\ IF task.pc = "readClaude"
              THEN /\ activeClaudeId' =
                          detectClaudeForId(<<task.config.v>>, task.id, activeClaudeId,
                                            extClaude)
                   /\ UNCHANGED activeCodexId
              ELSE /\ activeCodexId' =
                          detectCodexForId(<<task.config.v>>, task.id, activeCodexId,
                                           extCodexAuth, extCodexToml)
                   /\ UNCHANGED activeClaudeId
           /\ IF task.pc = "readClaude" /\ task.config.v.codex.some
              THEN /\ inflight' = (inflight \ {task})
                                  \cup {[task EXCEPT !.pc = "readCodex"]}
                   /\ UNCHANGED <<phase, last, arg>>
              ELSE /\ inflight' = inflight \ {task}
                   /\ phase' = "returned"
                   /\ last' = Outcome(task.op, "none", FALSE)
                   /\ arg' = [id |-> task.id, type |-> "none"]
    /\ UNCHANGED <<configs, statusCache, nextId, disk, extVars, calc, webview>>

\* setActiveConfig resumes after a writeFile of the write function: the
\* file holds the document of the record the call holds (ok), or the write
\* was refused and the call throws; after auth.json comes config.toml
Written(ok) ==
    /\ phase = "ready"
    /\ \E task \in inflight :
           /\ task.pc \in {"writeClaude", "writeAuth", "writeToml"}
           /\ extClaude' = IF ok /\ task.pc = "writeClaude"
                           THEN writeClaudeConfig(task.config.v.claude.v)
                           ELSE extClaude
           /\ extCodexAuth' = IF ok /\ task.pc = "writeAuth"
                              THEN writeCodexConfig(task.config.v.codex.v)[1]
                              ELSE extCodexAuth
           /\ extCodexToml' = IF ok /\ task.pc = "writeToml"
                              THEN writeCodexConfig(task.config.v.codex.v)[2]
                              ELSE extCodexToml
           /\ IF ok /\ task.pc = "writeAuth"
              THEN /\ inflight' = (inflight \ {task})
                                  \cup {[task EXCEPT !.pc = "writeToml"]}
                   /\ UNCHANGED <<phase, last, arg>>
              ELSE /\ inflight' = {IF ok /\ other.op = "setActive"
                                        /\ other.type = task.type
                                     THEN [other EXCEPT !.after = task.id]
                                     ELSE other : other \in inflight \ {task}}
                   /\ phase' = "returned"
                   /\ last' = Outcome(task.op, IF ok THEN "none" ELSE "io", FALSE)
                   /\ arg' = [id |-> task.id, type |-> task.type]
    /\ UNCHANGED <<configs, statusCache, activeClaudeId, activeCodexId, nextId, disk,
                   calc, webview>>

NextOverlap ==
    \/ Initialize
    \/ Return
    \/ \E input \in ValidInputs : StartAdd(input)
    \/ \E id \in Ids : StartDelete(id)
    \/ \E id \in Ids, type \in ProviderTypes : StartSetActive(id, type)
    \/ Persisted
    \/ Detected
    \/ \E ok \in BOOLEAN : Written(ok)

SpecOverlap == Init /\ [][NextOverlap]_vars

----------------------------------------------------------------------------
(* The sidebar.  The webview script posts requests to the extension host, *)
(* whose handleMessage answers them with messages the script's listener   *)
(* receives.  The store is constructed and initialized before the sidebar *)
(* is registered (extension.ts, activate).  The handlers are taken one at *)
(* a time here, each store call in one step; a notification the handler   *)
(* awaits is taken to be dismissed, the window not reloaded.              *)

\* the webview posts at most this many messages
MaxRequests == 4

\* at most this many posted messages await the end of their handlers
MaxPending == 2

\* the n-th message of the webview (IncomingMessage); pc is the position
\* of its handler, changed the handler's statusConfigChanged
IncomingMessage(n, type, id, providerType, payload) ==
    [n |-> n, type |-> type, id |-> id, providerType |-> providerType,
     payload |-> payload, pc |-> "posted", changed |-> FALSE]

\* what readPayloadFromFields returns for some fillings of the form
\* (ConfigFormPayload; an empty text is None): the name and the status
\* fields trimmed, no field required but the two fields of an endpoint
\* together
FormPayloads ==
    LET Form(name, status, claude, codex, claudeSettings, codexAuth, codexConfig) ==
            [name |-> name, website |-> None, status |-> status,
             claude |-> claude, codex |-> codex,
             claudeSettings |-> claudeSettings, codexAuth |-> codexAuth,
             codexConfig |-> codexConfig]
        Endpoint(baseUrl, apiKey) == Some([baseUrl |-> baseUrl, apiKey |-> apiKey])
    IN  { Form(<<"X">>, StatusBlock(Some(<<"s">>), None, None, None),
               None, None, Some(SettingsJsonTexts.a), None, None),
          Form(<<"X">>, None, Endpoint("https://b.com", "sk-1"), None,
               None, None, None),
          Form(<<"x">>, StatusBlock(Some(<<"s">>), Some(<<"t">>), None, None),
               None, Endpoint("https://b.com", "sk-2"), None,
               Some(AuthJsonTexts.k), Some(ConfigTomlTexts.table)) }

\* transformPayload: the texts of the previews when given, else the
\* documents generated from an endpoint's base url and key
transformPayload(payload) ==
    LET generated == <<TomlLine("url", payload.codex.v.baseUrl, FALSE)>>
    IN  Input(payload.name, payload.website, payload.status,
              IF payload.claudeSettings.some
              THEN Claude(payload.claudeSettings.v)
              ELSE IF payload.claude.some
              THEN Claude(JsonDoc(FALSE, "obj", payload.claude.v.baseUrl,
                                  payload.claude.v.apiKey, "a"))
              ELSE None,
              IF payload.codexAuth.some /\ payload.codexConfig.some
              THEN Codex(payload.codexAuth.v, payload.codexConfig.v)
              ELSE IF payload.codexAuth.some /\ payload.codex.some
              THEN Codex(payload.codexAuth.v, generated)
              ELSE IF payload.codex.some
              THEN Codex(JsonDoc(FALSE, "obj", "", payload.codex.v.apiKey, "a"),
                         generated)
              ELSE None)

\* resolveWebviewView, and main.js run to its end: the loading flag set,
\* ready and getTemplates posted
ResolveWebviewView ==
    /\ phase = "ready"
    /\ ~webview.open
    /\ webview' =
           [NoWebview EXCEPT
               !.open = TRUE, !.loading = TRUE, !.posted = 2,
               !.toHost = <<IncomingMessage(1, "ready", NoId, "none", None),
                            IncomingMessage(2, "getTemplates", NoId, "none",
                                            None)>>]
    /\ UNCHANGED <<storeVars, calc>>

\* the user submits the form (addConfig, or updateConfig of the record
\* being edited) or presses a button of a card shown (setActive; the
\* script has no sender of refreshStatus, which the host handles all the
\* same)
PostMessage(type, id, providerType, payload) ==
    /\ webview.open /\ ~webview.loading
    /\ webview.posted < MaxRequests
    /\ Len(webview.toHost) < MaxPending
    /\ IF type = "addConfig"
       THEN id = NoId /\ nextId + Len(webview.toHost) <= MaxIds
       ELSE \E i \in 1..Len(webview.configs) : webview.configs[i].id = id
    /\ (type \in {"addConfig", "updateConfig"}) = (payload \in FormPayloads)
    /\ (type = "setActive") = (providerType \in ProviderTypes)
    /\ webview' = [webview EXCEPT
                      !.posted = @ + 1,
                      !.toHost = Append(@, IncomingMessage(webview.posted + 1,
                                                           type, id, providerType,
                                                           payload))]
    /\ UNCHANGED <<storeVars, calc>>

\* tryRequestRefresh once the cooldown has passed: the refreshing flag set,
\* refreshAll posted
tryRequestRefresh ==
    /\ webview.open
    /\ webview.posted < MaxRequests
    /\ Len(webview.toHost) < MaxPending
    /\ webview' = [webview EXCEPT
                      !.refreshing = TRUE,
                      !.posted = @ + 1,
                      !.toHost = Append(@, IncomingMessage(webview.posted + 1,
                                                           "refreshAll", NoId,
                                                           "none", None))]
    /\ UNCHANGED <<storeVars, calc>>

\* postState, postTemplates: the message put on its way to the webview,
\* the handler of message at its end
posted(message, type) ==
    [webview EXCEPT
        !.toHost = Tail(@),
        !.toView = Append(@, [type |-> type,
                              payload |-> IF type = "state" THEN SafeConfigs
                                          ELSE <<>>]),
        !.received = @ \cup {<<message.n, message.type>>},
        !.answered = IF type = "state" THEN @ \cup {message.n} ELSE @]

\* handleMessage from the receipt of a message to its first store call:
\* ready and getTemplates are answered at once, updateConfig compares the
\* status block of the stored record with the payload's
handleMessage ==
    /\ phase = "ready"
    /\ webview.toHost # <<>>
    /\ LET message == Head(webview.toHost)
           k == IndexOfId(configs, message.id)
           Field(status, f) == IF status.some THEN status.v[f] ELSE None
           statusConfigChanged ==
               /\ message.type = "updateConfig"
               /\ k # 0
               /\ \E f \in {"url", "authorization", "userId", "cookie"} :
                      Field(configs[k].status, f) # Field(message.payload.status, f)
       IN  /\ message.pc = "posted"
           /\ webview' =
                  IF message.type = "ready" THEN posted(message, "state")
                  ELSE IF message.type = "getTemplates"
                  THEN posted(message, "templates")
                  ELSE [webview EXCEPT
                           !.toHost[1].pc = "call",
                           !.toHost[1].changed = statusConfigChanged,
                           !.received = @ \cup {<<message.n, message.type>>}]
    /\ UNCHANGED <<storeVars, calc>>

\* the store call the handler awaits: the call of the message, or the
\* refreshStatus that follows an addConfig or updateConfig
CallStore ==
    /\ webview.toHost # <<>>
    /\ LET message == Head(webview.toHost)
       IN  \/ /\ message.pc = "call" /\ message.type = "addConfig"
              /\ AddConfig(transformPayload(message.payload))
           \/ /\ message.pc = "call" /\ message.type = "updateConfig"
              /\ UpdateConfig(message.id, transformPayload(message.payload))
           \/ /\ message.pc = "call" /\ message.type = "setActive"
              /\ SetActiveConfig(message.id, message.providerType)
           \/ /\ \/ message.pc = "call" /\ message.type = "refreshStatus"
                 \/ message.pc = "refresh"
              /\ \E resp \in Responses : RefreshStatus(message.id, resp)
           \/ /\ message.pc = "call" /\ message.type = "refreshAll"
              /\ RefreshAll

\* handleMessage from the return of a store call on: an error goes to the
\* catch block, which shows it and posts nothing; after addConfig the
\* record is looked up by the payload's name and refreshed when the
\* payload has a status url, after updateConfig when the status block
\* changed; otherwise postState
Resume ==
    /\ phase = "returned"
    /\ webview.toHost # <<>>
    /\ LET message == Head(webview.toHost)
           url == IF message.payload.status.some
                  THEN message.payload.status.v.url ELSE None
           added == First({i \in 1..Len(configs) :
                              configs[i].name = message.payload.name})
       IN  /\ message.pc \in {"call", "refresh"}
           /\ webview' =
                  IF last.err # "none"
                  THEN [webview EXCEPT !.toHost = Tail(@),
                                       !.errors = @ \cup {message.n}]
                  ELSE IF /\ message.pc = "call"
                          /\ message.type = "addConfig"
                          /\ ~Falsy(url)
                          /\ added # 0
                  THEN [webview EXCEPT !.toHost[1].pc = "refresh",
                                       !.toHost[1].id = configs[added].id]
                  ELSE IF /\ message.pc = "call"
                          /\ message.type = "updateConfig"
                          /\ message.changed
                          /\ ~Falsy(url)
                  THEN [webview EXCEPT !.toHost[1].pc = "refresh"]
                  ELSE posted(message, "state")
    /\ phase' = "ready"
    /\ last' = Outcome("none", "none", FALSE)
    /\ arg' = NoArg
    /\ UNCHANGED <<memVars, nextId, disk, extVars, inflight, calc>>

\* the message listener of main.js: a state message replaces the list and
\* clears both flags, a templates message replaces the templates
ReceiveMessage ==
    /\ webview.toView # <<>>
    /\ webview' =
           IF Head(webview.toView).type = "state"
           THEN [webview EXCEPT !.toView = Tail(@),
                                !.configs = Head(webview.toView).payload,
                                !.loading = FALSE,
                                !.refreshing = FALSE]
           ELSE [webview EXCEPT !.toView = Tail(@), !.templates = TRUE]
    /\ UNCHANGED <<storeVars, calc>>

NextWebview ==
    \/ Initialize
    \/ (~webview.open /\ Return)
    \/ ResolveWebviewView
    \/ \E type \in {"addConfig", "updateConfig", "setActive", "refreshStatus"},
          id \in Ids \cup {NoId}, providerType \in ProviderTypes \cup {"none"},
          payload \in FormPayloads \cup {None} :
           PostMessage(type, id, providerType, payload)
    \/ tryRequestRefresh
    \/ handleMessage
    \/ CallStore
    \/ Resume
    \/ ReceiveMessage

\* the event loops of the extension host and of the webview run every
\* handler that has been started and deliver every message posted; every
\* store call that is awaited returns, every HTTP request ending (fetchStatus
\* aborts it after its timeout): weak fairness of CallStore, stated by the
\* states in which it can take a step, those in which the handler of the
\* first message awaits a store call
SpecWebview ==
    /\ Init
    /\ [][NextWebview]_vars
    /\ WF_vars(Initialize)
    /\ WF_vars(~webview.open /\ Return)
    /\ WF_vars(handleMessage)
    /\ []<>~(/\ phase = "ready"
              /\ webview.toHost # <<>>
              /\ Head(webview.toHost).pc \in {"call", "refresh"})
    /\ WF_vars(Resume)
    /\ WF_vars(ReceiveMessage)

----------------------------------------------------------------------------
(* The functions of the form and of the status normalizer, applied on      *)
(* their own: the initial state holds the input of one call, the one step  *)
(* applies the function.  The store takes no part.                         *)

\* the TOML texts of at most MaxTomlLen lines
TomlTexts ==
    LET TomlLines ==
            { EmptyLine,
              TomlLine("mp", "p", FALSE),
              TomlLine("hdr", "p", FALSE), TomlLine("hdr", "P", TRUE),
              TomlLine("hdr", "custom", FALSE),
              TomlLine("table", "t", FALSE),
              TomlLine("url", "https://old", FALSE), TomlLine("url", "https://old", TRUE),
              TomlLine("url", "", FALSE),
              TomlLine("xurl", "https://c", FALSE),
              TomlLine("key", "k", FALSE) }
    IN  UNION {[1..n -> TomlLines] : n \in 0..MaxTomlLen}

\* the amounts a status body reports
Quotas == {JNum(QuotaUnit * k) : k \in 0..MaxQuota}

\* the objects under the key data
DataRecords ==
    UNION { [keys -> Quotas \cup {JStr(<<" ", "7">>), JStr(<<"x">>), JNull}] :
              keys \in SUBSET {"used_quota", "quota"} }
    \cup { [key \in {"used_quota", "quota"} \cup more |->
              IF key = "used_quota" THEN used
              ELSE IF key = "quota" THEN quota
              ELSE JNum(7)] :
              used \in Quotas, quota \in Quotas,
              more \in SUBSET {"usage", "balance", "total"} }
    \cup { [key \in {"used_quota", "quota"} |->
              IF key = "used_quota" THEN JNum(QuotaUnit)
              ELSE JObj([f \in {"quotaRemaining", "currentUsage", "quotaLimit"} |->
                            IF f = "quotaLimit" THEN JNum(0) ELSE JNum(7)])] }

\* a call not yet made
Call(fn, in) == [fn |-> fn, in |-> in, done |-> FALSE, out |-> <<>>]

\* no store has been constructed; one function is about to be applied to
\* one input
InitPure ==
    LET \* the parsed bodies normalizeStatus is applied to
        StatusBodies ==
            { JObj([key \in {"data"} |-> JObj(data)]) : data \in DataRecords }
            \cup { JObj([key \in {"data", "message"} |->
                            IF key = "data" THEN JObj(data) ELSE JStr(<<"x">>)]) :
                      data \in DataRecords }
            \cup { JArr(<<JNull, JObj([key \in {"data"} |-> JObj(data)])>>) :
                      data \in DataRecords }
            \cup { JObj(data) : data \in DataRecords }
            \cup { JNull, JNum(0), JStr(<<>>), JStr(<<"x">>), JArr(<<>>), JBool(TRUE) }
            \cup LET One(key, v) == JObj([k \in {key} |-> v])
                     Candidates ==
                         { JNull, JStr(<<"x">>), One("other", JNum(7)),
                           One("balance", JStr(<<>>)), One("balance", JNum(7)),
                           One("message", JStr(<<"x">>)),
                           One("data", One("quota", One("quotaLimit", JNum(0)))),
                           One("data", One("quota", One("quotaLimit", JNum(7)))),
                           One("data", JObj([k \in {"usage", "balance", "total"} |-> JStr(<<>>)])),
                           One("data", JObj([k \in {"usage", "balance", "total"} |-> JNum(7)])),
                           One("data", One("used_quota", JNum(QuotaUnit))) }
                 IN  Candidates \cup {JArr(<<first, second>>) : first, second \in Candidates}

        \* what the first request of fetchStatus may come to
        PrimaryResponses ==
            Responses
            \cup { Response(FALSE, "Bad Gateway", JsonBody(JObj([key \in {"error"} |-> JStr(<<"x">>)]))),
                   Response(FALSE, "Bad Gateway", TextBody(<<"x">>)),
                   Response(FALSE, "Bad Gateway",
                            JsonBody(JObj([key \in {"data", "message"} |->
                                IF key = "message" THEN JStr(<<"x">>)
                                ELSE JObj([k2 \in {"overview"} |->
                                         JObj([k3 \in {"cost"} |-> JNum(QuotaUnit)])])]))),
                   Response(TRUE, "OK",
                            JsonBody(JObj([key \in {"data"} |->
                                JObj([k2 \in {"overview"} |->
                                    JObj([k3 \in {"cost"} |-> JNum(QuotaUnit)])])]))) }

        \* what the request to /api/status may come to
        StatusResponses ==
            { Failed("fetch failed"),
              Response(TRUE, "OK", JsonBody(JObj([key \in {"data"} |->
                                       JObj([k2 \in {"quota_per_unit"} |-> JNum(500000)])]))),
              Response(TRUE, "OK", TextBody(<<"x">>)),
              Response(FALSE, "Not Found", TextBody(<<"x">>)) }

        \* what the request to the subscription url may come to
        SubscriptionResponses ==
            LET Subscription(id, currentCredits) ==
                    JObj([key \in {"id", "currentCredits"} |->
                             IF key = "id" THEN JNum(id) ELSE JNum(currentCredits)])
            IN
            { Failed("fetch failed"),
              Response(TRUE, "OK", JsonBody(JObj([key \in {"data"} |->
                                       JArr(<<Subscription(2, 4 * QuotaUnit),
                                              Subscription(1, QuotaUnit)>>)]))),
              Response(TRUE, "OK", JsonBody(JObj([key \in {"data"} |->
                                       JArr(<<Subscription(1, QuotaUnit),
                                              Subscription(3, 3 * QuotaUnit),
                                              Subscription(2, 4 * QuotaUnit)>>)]))),
              Response(TRUE, "OK", JsonBody(JObj([key \in {"data"} |-> JArr(<<JNull>>)]))),
              Response(FALSE, "Forbidden", TextBody(<<"x">>)) }

        \* the record lists detectActiveConfigForId is applied to: up to two
        \* records made of valid inputs
        DetectLists ==
            LET DetectRecords(id) ==
                    {NewConfig(id, normalizeInput(input).payload.v) : input \in ValidInputs}
            IN  {<<>>} \cup {<<first>> : first \in DetectRecords(1)}
                \cup {<<first, second>> : first \in DetectRecords(1),
                                          second \in DetectRecords(2)}

        \* the external files it is applied to: absent, unparsable, or of either
        \* identity
        DetectFiles ==
            InitialExternalFiles
            \cup { <<Some(SettingsJsonTexts.b), Some(AuthJsonTexts.k), Some(ConfigTomlTexts.table)>>,
                   <<None, Some(AuthJsonTexts.k), None>> }

        \* the status blocks of the form: absent, or with each field absent, empty,
        \* blank, padded or plain
        StatusBlocks ==
            LET Texts == {None, Some(<<>>), Some(<<" ">>), Some(<<" ", "s", " ">>),
                          Some(<<"s">>), Some(<<"s", " ", "t">>)}
            IN  {None} \cup {StatusBlock(url, authorization, userId, cookie) :
                                url \in Texts, authorization \in Texts,
                                userId \in Texts, cookie \in Texts}
    IN  /\ phase = "new"
        /\ configs = <<>>
        /\ statusCache = EmptyCache
        /\ activeClaudeId = NoId
        /\ activeCodexId = NoId
        /\ nextId = 1
        /\ disk = AbsentFile
        /\ extClaude = None /\ extCodexAuth = None /\ extCodexToml = None
        /\ last = Outcome("new", "none", FALSE)
        /\ arg = NoArg
        /\ inflight = {}
        /\ webview = NoWebview
        /\ \/ \E baseUrl \in {"https://a.com", "https://b.com"}, customToml \in TomlTexts :
                 calc = Call("merge", [baseUrl |-> baseUrl, customToml |-> customToml])
           \/ \E configToml \in TomlTexts : calc = Call("strip", configToml)
           \/ \E configToml \in TomlTexts : calc = Call("extract", configToml)
           \/ \E input \in StatusBodies : calc = Call("normalize", input)
           \/ \E status \in StatusBlocks : calc = Call("block", status)
           \/ \E cs \in DetectLists, id \in 1..3, claudeId \in 0..2, codexId \in 0..2,
                 files \in DetectFiles :
                 calc = Call("detect", [configs |-> cs, configId |-> id,
                                        activeClaudeId |-> claudeId,
                                        activeCodexId |-> codexId, files |-> files])
           \/ \E url \in {<<"s">>, <<"h">> \o UserSelfPath, <<"h">> \o DashboardPath},
                 response \in PrimaryResponses,
                 statusResponse \in StatusResponses,
                 subscriptionResponse \in SubscriptionResponses :
                 calc = Call("fetch", [url |-> url, response |-> response,
                                       statusResponse |-> statusResponse,
                                       subscriptionResponse |-> subscriptionResponse])

\* calc once the call has returned result
Result(result) == [calc EXCEPT !.done = TRUE, !.out = result]

\* mergeCodexConfigToml(baseUrl, customToml)
Merge ==
    /\ calc.fn = "merge" /\ ~calc.done
    /\ calc' = Result(mergeCodexConfigToml(calc.in.baseUrl, calc.in.customToml))
    /\ UNCHANGED <<storeVars, webview>>

\* extractCustomToml(configToml)
Strip ==
    /\ calc.fn = "strip" /\ ~calc.done
    /\ calc' = Result(extractCustomToml(calc.in))
    /\ UNCHANGED <<storeVars, webview>>

\* extractCodexBaseUrl(configToml)
Extract ==
    /\ calc.fn = "extract" /\ ~calc.done
    /\ calc' = Result(extractCodexBaseUrl(calc.in))
    /\ UNCHANGED <<storeVars, webview>>

\* normalizeStatus(input)
Normalize ==
    /\ calc.fn = "normalize" /\ ~calc.done
    /\ calc' = Result(normalizeStatus(calc.in))
    /\ UNCHANGED <<storeVars, webview>>

\* normalizeStatusBlock(status)
NormalizeBlock ==
    /\ calc.fn = "block" /\ ~calc.done
    /\ calc' = Result(normalizeStatusBlock(calc.in))
    /\ UNCHANGED <<storeVars, webview>>

\* fetchStatus(config) for a record with the status url
Fetch ==
    /\ calc.fn = "fetch" /\ ~calc.done
    /\ calc' = Result(fetchStatus([status |-> StatusBlock(Some(calc.in.url), None,
                                                          None, None)],
                                  calc.in.response, calc.in.statusResponse,
                                  calc.in.subscriptionResponse))
    /\ UNCHANGED <<storeVars, webview>>

\* detectActiveConfigForId(configId): the two flags afterwards
Detect ==
    /\ calc.fn = "detect" /\ ~calc.done
    /\ calc' = Result([activeClaudeId |->
                           detectClaudeForId(calc.in.configs, calc.in.configId,
                                             calc.in.activeClaudeId, calc.in.files[1]),
                       activeCodexId |->
                           detectCodexForId(calc.in.configs, calc.in.configId,
                                            calc.in.activeCodexId, calc.in.files[2],
                                            calc.in.files[3])])
    /\ UNCHANGED <<storeVars, webview>>

NextPure == Merge \/ Strip \/ Extract \/ Normalize \/ NormalizeBlock \/ Fetch \/ Detect

SpecPure == InitPure /\ [][NextPure]_vars

----------------------------------------------------------------------------
(* Properties *)

\* the payload normalizeInput returns for an input it accepts
PayloadOf(input) == normalizeInput(input).payload.v

NameInUse(name) == \E i \in 1..Len(configs) : configs[i].name = name

\* C1: no two stored records have the same name, names being compared
\* case-sensitively after trimming
C1_UniqueNames ==
    \A i, j \in 1..Len(configs) :
        i # j => Trim(configs[i].name) # Trim(configs[j].name)

\* two records are stored and a call has just been rejected for its name
C1_Witness ==
    /\ Len(configs) = 2
    /\ last.op \in {"add", "update"}
    /\ last.err = "nameExists"

\* C2: addConfig with an input that passes validation and whose name is the
\* name of a stored record throws the name-exists error and adds nothing
C2_DuplicateNameRejected ==
    [][\A input \in Inputs :
          (/\ last'.op = "add"
           /\ normalizeInput(input).err = "none"
           /\ NameInUse(PayloadOf(input).name)
           /\ AddConfig(input))
          => (last'.err = "nameExists" /\ configs' = configs)]_vars

\* addConfig has just been rejected for its name
C2_Witness == last.op = "add" /\ last.err = "nameExists"

HasEndpoint(c) == c.claude.some \/ c.codex.some

\* the input carries neither endpoint
Bare(input) == ~input.claude.some /\ ~input.codex.some

\* C3 as claimed: every stored record has an endpoint, and addConfig and
\* updateConfig answer every input without an endpoint with the
\* at-least-one-endpoint error
C3_Original ==
    [][/\ \A i \in 1..Len(configs') : HasEndpoint(configs'[i])
       /\ \A input \in Inputs :
             (/\ Bare(input)
              /\ last'.op \in {"add", "update"}
              /\ AddConfig(input) \/ \E id \in Ids : UpdateConfig(id, input))
             => last'.err = "noEndpoint"]_vars

\* C3: every stored record has an endpoint; addConfig and updateConfig reject
\* every input without an endpoint and leave the records as they are, the
\* error being the at-least-one-endpoint error when the name is not blank
\* and, for updateConfig, the id is that of a stored record
C3_AtLeastOneEndpoint ==
    [][/\ \A i \in 1..Len(configs') : HasEndpoint(configs'[i])
       /\ \A input \in Inputs :
             /\ (Bare(input) /\ last'.op = "add" /\ AddConfig(input))
                => /\ last'.err # "none"
                   /\ configs' = configs
                   /\ Trim(input.name) # <<>> => last'.err = "noEndpoint"
             /\ \A id \in Ids :
                   (Bare(input) /\ last'.op = "update" /\ UpdateConfig(id, input))
                   => /\ last'.err # "none"
                      /\ configs' = configs
                      /\ (Trim(input.name) # <<>> /\ IndexOfId(configs, id) # 0)
                         => last'.err = "noEndpoint"]_vars

\* an update without endpoints of a stored record has just been rejected
C3_Witness ==
    /\ last.op = "update"
    /\ last.err = "noEndpoint"
    /\ Len(configs) = 2
    /\ \E i \in 1..2 : configs[i].claude.some /\ configs[i].codex.some

\* getSafeConfigs of the state a step leads to
SafeConfigsAfter ==
    getSafeConfigs(configs', activeClaudeId', activeCodexId', statusCache')

\* a summary without its two isActive marks
Unmarked(s) ==
    LET off(e) == IF e.some THEN Some([e.v EXCEPT !.isActive = FALSE]) ELSE None
    IN  [s EXCEPT !.claude = off(s.claude), !.codex = off(s.codex)]

\* the endpoint summary e carries the base URL of the input's document
ClaudeUrlOf(input, e) ==
    input.claude.some <=> (e.some /\ e.v.baseUrl = input.claude.v.settingsJson.url)

CodexUrlOf(input, e) ==
    input.codex.some <=>
        (e.some /\ \E k \in 1..Len(input.codex.v.configToml) :
                       /\ input.codex.v.configToml[k].t = "url"
                       /\ input.codex.v.configToml[k].v = e.v.baseUrl)

\* the step is addConfig(input) returning for an input that is valid and
\* whose name, as given, is not in use
AddedFresh(input) ==
    /\ last'.op = "add"
    /\ last'.err = "none"
    /\ ~NameInUse(input.name)
    /\ AddConfig(input)

\* C4 as claimed: after addConfig of a valid input with an unused name
\* getSafeConfigs is the previous list plus one summary, whose name is the
\* input's name and whose base URLs are those of the input's documents
C4_Original ==
    [][\A input \in Inputs :
          AddedFresh(input)
          => LET old == SafeConfigs
                 new == SafeConfigsAfter
             IN  /\ Len(new) = Len(old) + 1
                 /\ SubSeq(new, 1, Len(old)) = old
                 /\ new[Len(new)].name = input.name
                 /\ ClaudeUrlOf(input, new[Len(new)].claude)
                 /\ CodexUrlOf(input, new[Len(new)].codex)]_vars

\* C4: after addConfig of a valid input with an unused name getSafeConfigs
\* has one more summary, at the end: its name is the input's name trimmed
\* and its base URLs are those of the input's documents; the summaries
\* before it are the previous ones, except that an isActive mark may have
\* passed from one of them to the new summary
C4_AddThenList ==
    [][\A input \in Inputs :
          AddedFresh(input)
          => LET old == SafeConfigs
                 new == SafeConfigsAfter
                 n == Len(new)
             IN  /\ n = Len(old) + 1
                 /\ new[n].name = Trim(input.name)
                 /\ new[n].id \notin {old[i].id : i \in 1..Len(old)}
                 /\ ClaudeUrlOf(input, new[n].claude)
                 /\ CodexUrlOf(input, new[n].codex)
                 /\ \A i \in 1..Len(old) :
                       /\ Unmarked(new[i]) = Unmarked(old[i])
                       /\ \A t \in {"claude", "codex"} :
                             new[i][t] # old[i][t]
                             => /\ old[i][t].v.isActive
                                /\ new[n][t].some /\ new[n][t].v.isActive]_vars

\* a second record has just been added and it carries the Claude mark
C4_Witness ==
    /\ last.op = "add"
    /\ last.err = "none"
    /\ Len(configs) = 2
    /\ activeClaudeId = configs[2].id
    /\ extClaude.some

\* getSafeConfigs of a ConfigManager newly constructed and initialized over
\* a home directory with these files
FreshSummaries(file, settings, auth, toml) ==
    LET cs == load(file).configs
    IN  getSafeConfigs(cs, detectActiveClaude(cs, NoId, settings),
                       detectActiveCodex(cs, NoId, auth, toml), EmptyCache)

\* the ids of the summaries marked active for Claude
ClaudeMarked(summaries) ==
    {summaries[i].id : i \in {j \in 1..Len(summaries) :
                                 /\ summaries[j].claude.some
                                 /\ summaries[j].claude.v.isActive}}

FreshAfter == FreshSummaries(disk', extClaude', extCodexAuth', extCodexToml')

\* the step is setActiveConfig(id, type) returning
Activated(id, type) ==
    /\ last'.op = "setActive"
    /\ last'.err = "none"
    /\ SetActiveConfig(id, type)

WrittenAfter(config, type) ==
    IF type = "claude"
    THEN extClaude' = Some(config.claude.v.settingsJson)
    ELSE /\ extCodexAuth' = Some(config.codex.v.authJson)
         /\ extCodexToml' = Some(config.codex.v.configToml)

ActiveId(type) == IF type = "claude" THEN activeClaudeId ELSE activeCodexId

\* C6 as claimed: whenever setActiveConfig(id, type) returns, the external
\* file(s) of that type are exactly the record's stored document(s)
C6_Original ==
    [][\A id \in Ids, type \in ProviderTypes :
          Activated(id, type)
          => WrittenAfter(configs[IndexOfId(configs, id)], type)]_vars

\* C6: whenever setActiveConfig(id, type) returns for a record that was not
\* already the active one of that type, the external file(s) of that type
\* are exactly the record's stored document(s) and the record is the active
\* one; for a record that already was, the call changes neither the files
\* nor the flags
C6_SetActiveWrites ==
    [][\A id \in Ids, type \in ProviderTypes :
          Activated(id, type)
          => IF ActiveId(type) # id
             THEN /\ WrittenAfter(configs[IndexOfId(configs, id)], type)
                  /\ ActiveId(type)' = id
             ELSE UNCHANGED <<extVars, activeClaudeId, activeCodexId>>]_vars

\* setActiveConfig has just written the Codex documents of the second of
\* two records
C6_Witness ==
    /\ last.op = "setActive"
    /\ last.err = "none"
    /\ Len(configs) = 2
    /\ configs[2].codex.some
    /\ activeCodexId = configs[2].id
    /\ extCodexAuth = Some(configs[2].codex.v.authJson)
    /\ extCodexToml = Some(configs[2].codex.v.configToml)
    /\ activeClaudeId = configs[1].id

\* C7: deleteConfig(id) of a record that is active for an endpoint type
\* clears the active flag of that type, and deleteConfig leaves the external
\* Claude and Codex files as they are
C7_DeleteClearsFlag ==
    [][\A id \in Ids :
          (last'.op = "delete" /\ last'.err = "none" /\ DeleteConfig(id))
          => /\ activeClaudeId = id => activeClaudeId' = NoId
             /\ activeCodexId = id => activeCodexId' = NoId
             /\ UNCHANGED extVars]_vars

\* the only record ever added has been deleted; settings.json still holds
\* the document written for it and no record is active
C7_Witness ==
    /\ last.op = "delete"
    /\ last.err = "none"
    /\ configs = <<>>
    /\ nextId = 2
    /\ extClaude = Some(SettingsJsonTexts.b)
    /\ activeClaudeId = NoId

\* C8: when updateConfig is applied to the record that is active for an
\* endpoint type, with an input whose validated document(s) of that type
\* differ from the stored one(s), then on return the external file(s) of
\* that type are the new document(s), the record is still the active one of
\* that type, and updateConfig returns true
C8_UpdateActiveSyncs ==
    [][\A id \in Ids, input \in ValidInputs :
          (last'.op = "update" /\ last'.err = "none" /\ UpdateConfig(id, input))
          => LET target == configs[IndexOfId(configs, id)]
                 payload == PayloadOf(input)
             IN  /\ ( /\ activeClaudeId = id
                      /\ target.claude.some /\ payload.claude.some
                      /\ target.claude.v # payload.claude.v )
                    => /\ extClaude' = Some(payload.claude.v.settingsJson)
                       /\ activeClaudeId' = id
                       /\ last'.ret
                 /\ ( /\ activeCodexId = id
                      /\ target.codex.some /\ payload.codex.some
                      /\ target.codex.v # payload.codex.v )
                    => /\ extCodexAuth' = Some(payload.codex.v.authJson)
                       /\ extCodexToml' = Some(payload.codex.v.configToml)
                       /\ activeCodexId' = id
                       /\ last'.ret]_vars

\* updateConfig has just returned true for the second of two records, which
\* is the active Codex record, and the Codex files hold its documents, a
\* config.toml with a root-level base_url
C8_Witness ==
    /\ last.op = "update"
    /\ last.err = "none"
    /\ last.ret
    /\ Len(configs) = 2
    /\ configs[2].codex.some
    /\ activeCodexId = configs[2].id
    /\ extCodexAuth = Some(configs[2].codex.v.authJson)
    /\ extCodexToml = Some(TrimToml(ConfigTomlTexts.rootPadded))
    /\ extCodexToml = Some(configs[2].codex.v.configToml)

\* the API keys and tokens of the stored records
StoredKeys ==
    UNION {   (IF configs[i].claude.some
               THEN {configs[i].claude.v.settingsJson.tok} ELSE {})
         \cup (IF configs[i].codex.some
               THEN {configs[i].codex.v.authJson.tok} ELSE {})
          : i \in 1..Len(configs)}

\* the authorization and cookie texts of the stored status blocks
StoredStatusSecrets ==
    UNION { IF configs[i].status.some
            THEN {configs[i].status.v[f].v :
                     f \in {g \in {"authorization", "cookie"} :
                               configs[i].status.v[g].some}}
            ELSE {}
          : i \in 1..Len(configs)}

\* C9: every summary of getSafeConfigs has the fields id, name, website,
\* claude, codex, hasStatusConfig and lastStatus and no other; an endpoint
\* summary has baseUrl, hasCredentials and isActive and no other, the last
\* two being booleans; and no text in a summary is an API key or token of a
\* stored record or the authorization or cookie of a stored status block
C9_NoSecrets ==
    \A i \in 1..Len(configs) :
        LET s == SafeConfigs[i]
        IN  /\ DOMAIN s = {"id", "name", "website", "claude", "codex",
                           "hasStatusConfig", "lastStatus"}
            /\ s.id = configs[i].id
            /\ s.hasStatusConfig \in BOOLEAN
            /\ s.name \notin StoredStatusSecrets
            /\ s.website.some => s.website.v \notin StoredStatusSecrets
            /\ \A t \in {"claude", "codex"} :
                  s[t].some
                  => /\ DOMAIN s[t].v = {"baseUrl", "hasCredentials", "isActive"}
                     /\ s[t].v.baseUrl \notin StoredKeys
                     /\ s[t].v.hasCredentials \in BOOLEAN
                     /\ s[t].v.isActive \in BOOLEAN
            /\ s.lastStatus.some
               => /\ DOMAIN s.lastStatus.v = {"ok", "balance", "usage", "total",
                                               "quotaPerUnit", "message", "rawText"}
                  /\ \A f \in {"balance", "usage", "total", "message", "rawText"} :
                        s.lastStatus.v[f].some
                        => /\ \A key \in StoredKeys :
                                 s.lastStatus.v[f].v # Message(key)
                           /\ \A secret \in StoredStatusSecrets :
                                 s.lastStatus.v[f].v # Chars(secret)

\* two records are stored: one with a Claude endpoint, a status block with
\* authorization and cookie and a status snapshot, one with both endpoints
C9_Witness ==
    /\ Len(configs) = 2
    /\ \E i, j \in 1..2 :
          /\ configs[i].claude.some
          /\ configs[i].status.some
          /\ configs[i].status.v.authorization.some
          /\ configs[i].status.v.cookie.some
          /\ configs[i].id \in DOMAIN statusCache
          /\ statusCache[configs[i].id].ok
          /\ configs[j].claude.some /\ configs[j].codex.some
          /\ activeCodexId = configs[j].id

\* the store file as load cannot use it: missing, not JSON, or without a
\* configs array
Unusable(file) == file.kind # "obj" \/ ~file.configs.some

IdSeq(cs) == [i \in 1..Len(cs) |-> cs[i].id]

\* C11: after every successful addConfig, updateConfig and deleteConfig a
\* newly constructed store over the same home directory loads exactly the
\* records held in memory, in the same order; addConfig puts the new record
\* last, updateConfig moves no record, deleteConfig keeps the others in order
C11_PersistedAsHeld ==
    [][(last'.op \in {"add", "update", "delete"} /\ last'.err = "none")
       => /\ load(disk').configs = configs'
          /\ last'.op = "add"
             => /\ Len(configs') = Len(configs) + 1
                /\ SubSeq(IdSeq(configs'), 1, Len(configs)) = IdSeq(configs)
          /\ last'.op = "update" => IdSeq(configs') = IdSeq(configs)
          /\ last'.op = "delete"
             => \E k \in 1..Len(configs) :
                   IdSeq(configs') = SubSeq(IdSeq(configs), 1, k - 1)
                                     \o SubSeq(IdSeq(configs), k + 1, Len(configs))]_vars

\* the first of two records, one with a website and a status block, has
\* just been updated, and the store file holds both in the order of addition
C11_Witness ==
    /\ last.op = "update"
    /\ last.err = "none"
    /\ IdSeq(configs) = <<1, 2>>
    /\ configs[1].name = <<"x">>
    /\ \E i \in 1..2 : configs[i].website.some /\ configs[i].status.some
    /\ load(disk).configs = configs

ValidationErrors ==
    {"nameEmpty", "noEndpoint", "claudeEmpty", "claudeFormat", "claudeMissingKeys",
     "codexEmpty", "codexFormat", "codexMissingKey", "codexNoBaseUrl", "nameExists"}

\* C12: an addConfig or updateConfig that throws a validation error (name
\* empty, no endpoint, Claude settings empty, malformed or incomplete, Codex
\* documents empty, malformed or incomplete, name in use) leaves the record
\* list, the store file, both active flags, the status cache and the
\* external files as they were
C12_RejectedChangesNothing ==
    [][(last'.op \in {"add", "update"} /\ last'.err \in ValidationErrors)
       => UNCHANGED <<memVars, disk, extVars>>]_vars

\* an update of an active record with a settings document that lacks the
\* token has just been rejected
C12_Witness ==
    /\ last.op = "update"
    /\ last.err = "claudeMissingKeys"
    /\ Len(configs) = 2
    /\ activeClaudeId # NoId
    /\ activeCodexId # NoId
    /\ DOMAIN statusCache # {}

\* C13 as stated: a refreshStatus on a stored record with a status url
\* returns, and when the request fails or its body is not JSON the snapshot
\* cached for the record has ok = false
C13_Original ==
    [][\A id \in Ids, resp \in Responses :
          (/\ last'.op = "refreshStatus"
           /\ IndexOfId(configs, id) # 0
           /\ configs[IndexOfId(configs, id)].status.some
           /\ configs[IndexOfId(configs, id)].status.v.url.some
           /\ RefreshStatus(id, resp))
          => /\ last'.err = "none"
             /\ id \in DOMAIN statusCache'
             /\ (resp.threw \/ ~resp.body.json) => ~statusCache'[id].ok]_vars

\* C13: a refreshStatus on a stored record returns and leaves a snapshot
\* for the record in the cache, the rest of the cache, the records, the
\* flags and the files being as before.  Without a status url the snapshot
\* has ok = false; when the request fails (network error, timeout) it has
\* ok = false and the error's message and no rawText; when a response
\* arrives, its ok is the response's ok, and a body that is not JSON is
\* kept as rawText, with no balance, usage or total
C13_FailuresCaptured ==
    [][\A id \in Ids, resp \in Responses :
          (/\ last'.op = "refreshStatus"
           /\ IndexOfId(configs, id) # 0
           /\ RefreshStatus(id, resp))
          => /\ last'.err = "none"
             /\ DOMAIN statusCache' = DOMAIN statusCache \cup {id}
             /\ \A other \in DOMAIN statusCache \ {id} :
                   statusCache'[other] = statusCache[other]
             /\ UNCHANGED <<configs, activeClaudeId, activeCodexId, disk, extVars>>
             /\ LET snapshot == statusCache'[id]
                    status == configs[IndexOfId(configs, id)].status
                IN  IF ~status.some \/ ~status.v.url.some
                    THEN ~snapshot.ok /\ ~snapshot.rawText.some
                    ELSE IF resp.threw
                    THEN /\ ~snapshot.ok
                         /\ snapshot.message = Some(Message(resp.error))
                         /\ ~snapshot.rawText.some
                    ELSE /\ snapshot.ok = resp.ok
                         /\ snapshot.rawText.some
                         /\ ~resp.body.json
                            => /\ snapshot.rawText.v = Chars(resp.body.c)
                               /\ ~snapshot.balance.some
                               /\ ~snapshot.usage.some
                               /\ ~snapshot.total.some]_vars

\* a refreshStatus whose request failed has just returned: the record's
\* snapshot has ok = false and the message of the error
C13_Witness ==
    /\ last.op = "refreshStatus"
    /\ last.err = "none"
    /\ \E i \in 1..Len(configs) :
          /\ configs[i].status.some
          /\ configs[i].id \in DOMAIN statusCache
          /\ ~statusCache[configs[i].id].ok
          /\ statusCache[configs[i].id].message = Some(Message("fetch failed"))

\* C14: merging a base URL into any custom TOML text and extracting the
\* base URL of the result gives the base URL back
C14_RoundTrip ==
    (calc.fn = "merge" /\ calc.done)
    => extractCodexBaseUrl(calc.out) = calc.in.baseUrl

\* C15: extractCustomToml applied to its own result changes nothing, for
\* every TOML text
C15_StripIdempotent ==
    (calc.fn = "strip" /\ calc.done) => extractCustomToml(calc.out) = calc.out

\* a text with a provider key, blank lines around it and two base_url lines
\* in the provider table has been stripped of both and trimmed
C15_Witness ==
    /\ calc.fn = "strip" /\ calc.done
    /\ Len(calc.in) = MaxTomlLen
    /\ providerMatch(calc.in) # 0
    /\ Cardinality({i \in Indices(calc.in) : IsBaseUrlLine(calc.in[i])}) = 2
    /\ Len(calc.out) = 2

\* text is the decimal numeral of the natural number n
IsDecimalOf(text, n) ==
    /\ text.some
    /\ text.v.k = "chars"
    /\ IsDigits(text.v.c)
    /\ Len(text.v.c) = 1 \/ text.v.c[1] # "0"
    /\ DigitsValue(text.v.c) = n

\* body is an object whose data has numbers under used_quota and quota and
\* is not of the shape data.{usage, balance, total}, which goes first
HasQuotaShape(body) ==
    /\ body.t = "obj"
    /\ "data" \in DOMAIN body.f
    /\ body.f.data.t = "obj"
    /\ {"used_quota", "quota"} \subseteq DOMAIN body.f.data.f
    /\ body.f.data.f.used_quota.t = "num"
    /\ body.f.data.f.quota.t = "num"
    /\ ~({"usage", "balance", "total"} \subseteq DOMAIN body.f.data.f)

\* C16: for a body with numbers under data.used_quota and data.quota,
\* normalizeStatus returns usage = used_quota, balance = quota and
\* total = used_quota + quota, each as a decimal numeral, and no message
C16_QuotaTotals ==
    (calc.fn = "normalize" /\ calc.done /\ HasQuotaShape(calc.in))
    => /\ IsDecimalOf(calc.out.usage, calc.in.f.data.f.used_quota.n)
       /\ IsDecimalOf(calc.out.balance, calc.in.f.data.f.quota.n)
       /\ IsDecimalOf(calc.out.total,
                      calc.in.f.data.f.used_quota.n + calc.in.f.data.f.quota.n)
       /\ ~calc.out.message.some

\* {"data":{"used_quota":100,"quota":400}} has been normalized to usage
\* "100", balance "400", total "500"
C16_Witness ==
    /\ calc.fn = "normalize" /\ calc.done
    /\ calc.in = JObj([key \in {"data"} |->
                         JObj([f \in {"used_quota", "quota"} |->
                                  IF f = "quota" THEN JNum(400) ELSE JNum(100)])])
    /\ calc.out.usage = Some(Chars(<<"1", "0", "0">>))
    /\ calc.out.balance = Some(Chars(<<"4", "0", "0">>))
    /\ calc.out.total = Some(Chars(<<"5", "0", "0">>))

\* the connection identity (base URL, secret) of a settings.json text and
\* of an auth.json, config.toml pair; <<>> when there is none
ClaudeIdentity(settings) ==
    IF settings.kind = "obj" /\ settings.url # "" /\ settings.tok # ""
    THEN <<settings.url, settings.tok>> ELSE <<>>

CodexIdentity(auth, toml) ==
    IF auth.kind = "obj" /\ auth.tok # "" /\ extractCodexBaseUrl(toml) # ""
    THEN <<extractCodexBaseUrl(toml), auth.tok>> ELSE <<>>

\* the record has the endpoint and its identity is the one of the external
\* files
ClaudeMatch(config, settings) ==
    /\ config.claude.some
    /\ settings.some
    /\ ClaudeIdentity(settings.v) # <<>>
    /\ ClaudeIdentity(config.claude.v.settingsJson) = ClaudeIdentity(settings.v)

CodexMatch(config, auth, toml) ==
    /\ config.codex.some
    /\ auth.some /\ toml.some
    /\ CodexIdentity(auth.v, toml.v) # <<>>
    /\ CodexIdentity(config.codex.v.authJson, config.codex.v.configToml)
       = CodexIdentity(auth.v, toml.v)

\* the positions of the stored records that match the external files
MatchingClaude == {i \in 1..Len(configs) : ClaudeMatch(configs[i], extClaude)}

MatchingCodex ==
    {i \in 1..Len(configs) : CodexMatch(configs[i], extCodexAuth, extCodexToml)}

\* the id of the earliest of the records at the given positions
EarliestId(positions) ==
    IF positions = {} THEN NoId
    ELSE configs[CHOOSE i \in positions : \A j \in positions : i <= j].id

\* C17: when init() has returned, it has thrown nothing, and each active
\* flag is the id of the earliest stored record whose identity equals the
\* identity read from that endpoint's external files, and undefined when no
\* record matches or the files are absent, unparsable or without identity
C17_DetectAll ==
    last.op = "init"
    => /\ last.err = "none"
       /\ activeClaudeId = EarliestId(MatchingClaude)
       /\ activeCodexId = EarliestId(MatchingCodex)

\* init() has returned over a store of two records which both match the
\* external files of both endpoints; the first one is active for both
C17_Witness ==
    /\ last.op = "init"
    /\ Len(configs) = 2
    /\ MatchingClaude = {1, 2}
    /\ MatchingCodex = {1, 2}
    /\ activeClaudeId = configs[1].id
    /\ activeCodexId = configs[1].id

\* the step from flag to flagAfter claims the slot for the matching record
\* id, or releases it from the record id, which does not match, or leaves it
OnlyOwnSlot(id, flag, flagAfter, matches) ==
    \/ flagAfter = flag
    \/ flagAfter = id /\ matches
    \/ flagAfter = NoId /\ flag = id /\ ~matches

\* C18: detectActiveConfigForId(id), the last step of addConfig and
\* updateConfig, changes an active flag only by setting it to id when the
\* record id has that endpoint and matches its external files, or by
\* clearing it when it was id and the record does not match or the files
\* are missing; it sets no flag to another record and clears no flag held
\* by another record
C18_DetectOneOnlyOwn ==
    (calc.fn = "detect" /\ calc.done)
    => LET id == calc.in.configId
           k == IndexOfId(calc.in.configs, id)
       IN  /\ OnlyOwnSlot(id, calc.in.activeClaudeId, calc.out.activeClaudeId,
                          k # 0 /\ ClaudeMatch(calc.in.configs[k], calc.in.files[1]))
           /\ OnlyOwnSlot(id, calc.in.activeCodexId, calc.out.activeCodexId,
                          k # 0 /\ CodexMatch(calc.in.configs[k], calc.in.files[2],
                                              calc.in.files[3]))

\* detectActiveConfigForId(2) has run while record 2 held both flags: its
\* settings.json identity is not the file's, so the Claude flag is cleared;
\* its Codex identity is the files', so the Codex flag stays
C18_Witness ==
    /\ calc.fn = "detect" /\ calc.done
    /\ Len(calc.in.configs) = 2
    /\ calc.in.configId = 2
    /\ calc.in.activeClaudeId = 2 /\ calc.in.activeCodexId = 2
    /\ calc.in.files[1].some
    /\ ClaudeMatch(calc.in.configs[1], calc.in.files[1])
    /\ calc.out.activeClaudeId = NoId
    /\ calc.out.activeCodexId = 2

\* the ids of the stored records
StoredIds == {configs[i].id : i \in 1..Len(configs)}

\* the stored record with the id lacks the endpoint of the type
LacksEndpoint(id, type) ==
    \E i \in 1..Len(configs) :
        /\ configs[i].id = id
        /\ \/ type = "claude" /\ ~configs[i].claude.some
           \/ type = "codex" /\ ~configs[i].codex.some

\* C19: updateConfig, deleteConfig, setActiveConfig and refreshStatus called
\* with an id that no stored record has throw the not-found error, and
\* setActiveConfig for an endpoint type the record lacks throws that
\* endpoint's not-configured error; in each case the record list, the store
\* file, both flags, the status cache and the external files are unchanged
C19_MissingTargetRejected ==
    [][(last'.op \in {"update", "delete", "setActive", "refreshStatus"})
       => /\ arg'.id \notin StoredIds
             => /\ last'.err = "notFound"
                /\ UNCHANGED <<memVars, disk, extVars>>
          /\ (last'.op = "setActive" /\ LacksEndpoint(arg'.id, arg'.type))
             => /\ last'.err = IF arg'.type = "claude" THEN "noClaude" ELSE "noCodex"
                /\ UNCHANGED <<memVars, disk, extVars>>]_vars

\* setActiveConfig(id, 'codex') has thrown for a record without a Codex
\* endpoint, which is the active Claude record and has a status snapshot
C19_Witness ==
    /\ last.op = "setActive"
    /\ last.err = "noCodex"
    /\ arg.type = "codex"
    /\ LacksEndpoint(arg.id, "codex")
    /\ activeClaudeId = arg.id
    /\ arg.id \in DOMAIN statusCache

\* C20: the status cache holds snapshots only for stored records, also
\* when a deleteConfig runs while a refreshStatus of the same record is
\* suspended on its request
C20_CacheOnlyStored == DOMAIN statusCache \subseteq StoredIds

\* no two records of the list have the same id
DistinctIds(cs) == \A i, j \in 1..Len(cs) : cs[i].id = cs[j].id => i = j

\* C21: the ids of the stored records are pairwise distinct in every state;
\* addConfig gives the record it appends an id no stored record has and
\* leaves the ids of the others as they are; updateConfig changes no id: the
\* record at the position of the id it was called with still has that id
C21_IdsAssignedOnce ==
    [][/\ DistinctIds(configs')
       /\ (last'.op = "add" /\ last'.err = "none") =>
              /\ Len(configs') = Len(configs) + 1
              /\ \A i \in 1..Len(configs) : configs'[i].id = configs[i].id
              /\ \A i \in 1..Len(configs) : configs'[Len(configs')].id # configs[i].id
       /\ (last'.op = "update" /\ last'.err = "none") =>
              /\ IdSeq(configs') = IdSeq(configs)
              /\ configs'[IndexOfId(configs, arg'.id)].id = arg'.id]_vars

\* updateConfig has returned for the second of two stored records
C21_Witness ==
    /\ last.op = "update" /\ last.err = "none"
    /\ Len(configs) = 2
    /\ configs[2].id = arg.id
    /\ configs[1].id # configs[2].id

\* the position of the first table header of the text after position from,
\* or one past the end
NextHeader(toml, from) ==
    LET hits == {i \in Indices(toml) : i > from /\ toml[i].t \in {"hdr", "table"}}
    IN  IF hits = {} THEN Len(toml) + 1 ELSE First(hits)

\* the positions of the root of the text: those before its first table header
RootOf(toml) == 1..(NextHeader(toml, 0) - 1)

\* the base URL the provider table of the text holds: the value of the first
\* base_url line between the header of the table named by the root
\* model_provider key and the next table header, "" when there is none
TableBaseUrl(toml) ==
    LET p == First({i \in RootOf(toml) : toml[i].t = "mp" /\ toml[i].v # ""})
        h == IF p = 0 THEN 0
             ELSE First({i \in Indices(toml) :
                            toml[i].t = "hdr" /\ Lower(toml[i].v) = Lower(toml[p].v)})
        u == IF h = 0 THEN 0
             ELSE First({i \in (h + 1)..(NextHeader(toml, h) - 1) :
                            toml[i].t = "url" /\ toml[i].v # ""})
    IN  IF u = 0 THEN "" ELSE toml[u].v

\* the values a root-level base_url line gives: that of the first such line,
\* and that of the first one that is not indented; "" when there is none
RootBaseUrls(toml) ==
    LET any == First({i \in RootOf(toml) : toml[i].t = "url" /\ toml[i].v # ""})
        flush == First({i \in RootOf(toml) :
                           toml[i].t = "url" /\ toml[i].v # "" /\ ~toml[i].ind})
    IN  {IF any = 0 THEN "" ELSE toml[any].v, IF flush = 0 THEN "" ELSE toml[flush].v}

\* C22: extractCodexBaseUrl(text) is the value of the base_url line that lies
\* between the header of the provider table (the table named by the root
\* model_provider key) and the next table header; when there is no such
\* line it is the value of a root-level base_url line, and nothing ("") when
\* there is none either; a base_url line of a later table is not returned
C22_ExtractBounded ==
    (calc.fn = "extract" /\ calc.done) =>
        IF TableBaseUrl(calc.in) # ""
        THEN calc.out = TableBaseUrl(calc.in)
        ELSE calc.out \in RootBaseUrls(calc.in)

\* the lines of the text at the positions of the set, in their order
RECURSIVE Pick(_, _)
Pick(toml, positions) ==
    IF positions = {} THEN <<>>
    ELSE LET m == CHOOSE i \in positions : \A j \in positions : j <= i
         IN  Append(Pick(toml, positions \ {m}), toml[m])

\* the positions of the base_url lines inside the provider table: the table
\* header last seen before the line is that of the provider the
\* model_provider key names
ProviderBaseUrls(toml) ==
    LET p == providerMatch(toml)
        Headers(i) == {h \in 1..(i - 1) : toml[h].t \in {"hdr", "table"}}
        LastHeader(i) == CHOOSE h \in Headers(i) : \A g \in Headers(i) : g <= h
    IN  {i \in Indices(toml) :
            /\ p # 0
            /\ toml[i].t = "url"
            /\ Headers(i) # {}
            /\ toml[LastHeader(i)].t = "hdr"
            /\ Lower(toml[LastHeader(i)].v) = Lower(toml[p].v)}

\* the text without the base_url lines of the provider table
WithoutProviderBaseUrls(toml) == Pick(toml, Indices(toml) \ ProviderBaseUrls(toml))

ProviderHeaders(toml) ==
    LET p == providerMatch(toml)
    IN  {h \in Indices(toml) :
            p # 0 /\ toml[h].t = "hdr" /\ Lower(toml[h].v) = Lower(toml[p].v)}

\* the text has its provider table once, with at most one base_url line
OneProviderTable(toml) ==
    /\ Cardinality(ProviderHeaders(toml)) = 1
    /\ Cardinality(ProviderBaseUrls(toml)) <= 1

\* C24: mergeCodexConfigToml(baseUrl, text), for a text that holds the table
\* its model_provider key names (once, with at most one base_url line), is
\* the text with one change: the base_url line of the table reads
\* base_url = "<baseUrl>" in its place, or, the table having none, that line
\* stands immediately before the next table header, at the end of the text
\* when the table is the last; every other line is as it was, in order
C24_MergeInPlace ==
    (calc.fn = "merge" /\ calc.done /\ OneProviderTable(calc.in.customToml)) =>
        LET toml == calc.in.customToml
            line == TomlLine("url", calc.in.baseUrl, FALSE)
            h == CHOOSE i \in ProviderHeaders(toml) : TRUE
            next == NextHeader(toml, h)
        IN  IF ProviderBaseUrls(toml) # {}
            THEN /\ Len(calc.out) = Len(toml)
                 /\ \A i \in Indices(toml) :
                        calc.out[i] = IF i \in ProviderBaseUrls(toml) THEN line
                                      ELSE toml[i]
            ELSE calc.out = SubSeq(toml, 1, next - 1) \o <<line>>
                            \o SubSeq(toml, next, Len(toml))

\* a provider table without a base_url line, followed by another table: the
\* line has been put before that table's header
C24_Witness ==
    /\ calc.fn = "merge" /\ calc.done
    /\ OneProviderTable(calc.in.customToml)
    /\ ProviderBaseUrls(calc.in.customToml) = {}
    /\ Len(calc.in.customToml) = 4
    /\ calc.in.customToml[4].t = "table"
    /\ calc.out[4] = TomlLine("url", calc.in.baseUrl, FALSE)
    /\ calc.out[5] = calc.in.customToml[4]

\* the fields hold something to show: the condition normalizeStatus puts on
\* the generic fields, balance || usage || total || message
Usable(fields) ==
    \/ TruthyText(fields.balance) \/ TruthyText(fields.usage)
    \/ TruthyText(fields.total) \/ TruthyText(fields.message)

\* C25: normalizeStatus(body), the body being one candidate or an array of
\* candidates, is the result of the first candidate whose result is usable
\* (some field present and not empty), a candidate's result being taken from
\* data.quota, else from data.{usage, balance, total}, else from
\* data.{used_quota, quota}, else from the top-level synonyms; it is empty
\* only when no candidate has a usable result
C25_FirstUsable ==
    (calc.fn = "normalize" /\ calc.done) =>
        LET candidates == IF ~Truthy(calc.in) THEN <<>>
                          ELSE IF calc.in.t = "arr" THEN calc.in.a
                          ELSE <<calc.in>>
            first == First({i \in Indices(candidates) :
                               Usable(normalizeCandidate(candidates[i]).fields)})
        IN  IF first = 0 THEN ~Usable(calc.out)
            ELSE calc.out = normalizeCandidate(candidates[first]).fields

\* C26: fetchStatus for a status url of the 88code dashboard, the dashboard
\* body holding data.overview.cost and the subscription request having
\* succeeded with a list of records: balance is the currentCredits of the
\* record with the largest id of the list, usage is the cost, total is their
\* sum (each as a decimal numeral), and quotaPerUnit is 1
C26_LargestIdSubscription ==
    (/\ calc.fn = "fetch" /\ calc.done
     /\ Includes(calc.in.url, DashboardPath)
     /\ ~calc.in.response.threw /\ calc.in.response.body.json
     /\ Get(Get(Get(calc.in.response.body.v, "data"), "overview"), "cost").t = "num"
     /\ ~calc.in.subscriptionResponse.threw /\ calc.in.subscriptionResponse.ok
     /\ calc.in.subscriptionResponse.body.json
     /\ Get(calc.in.subscriptionResponse.body.v, "data").t = "arr"
     /\ Get(calc.in.subscriptionResponse.body.v, "data").a # <<>>
     /\ \A i \in 1..Len(Get(calc.in.subscriptionResponse.body.v, "data").a) :
            Get(Get(calc.in.subscriptionResponse.body.v, "data").a[i], "id").t = "num")
    => LET records == Get(calc.in.subscriptionResponse.body.v, "data").a
           current == CHOOSE i \in 1..Len(records) :
                          \A j \in 1..Len(records) :
                              Get(records[j], "id").n <= Get(records[i], "id").n
           credits == Get(records[current], "currentCredits").n
           cost == Get(Get(Get(calc.in.response.body.v, "data"), "overview"), "cost").n
       IN  /\ IsDecimalOf(calc.out.balance, credits)
           /\ IsDecimalOf(calc.out.usage, cost)
           /\ IsDecimalOf(calc.out.total, cost + credits)
           /\ calc.out.quotaPerUnit = Some(1)

\* three records came back, the one with the largest id neither the first
\* nor the last nor the one with the most credits
C26_Witness ==
    /\ calc.fn = "fetch" /\ calc.done
    /\ Includes(calc.in.url, DashboardPath)
    /\ ~calc.in.response.threw /\ calc.in.response.body.json
    /\ Get(Get(Get(calc.in.response.body.v, "data"), "overview"), "cost") = JNum(QuotaUnit)
    /\ ~calc.in.subscriptionResponse.threw /\ calc.in.subscriptionResponse.ok
    /\ calc.in.subscriptionResponse.body.json
    /\ Get(calc.in.subscriptionResponse.body.v, "data").t = "arr"
    /\ Len(Get(calc.in.subscriptionResponse.body.v, "data").a) = 3
    /\ calc.out.balance = Some(Chars(<<"3", "0", "0">>))
    /\ calc.out.total = Some(Chars(<<"4", "0", "0">>))
    /\ calc.out.quotaPerUnit = Some(1)

\* C27: when the request to the status url has been answered, the snapshot's
\* ok is the response's ok, whatever the body is and whatever the second
\* request came to; with ok the snapshot has no message; without it the
\* message is that of the normalized data the snapshot's balance, usage and
\* total are taken from (the body, or the body merged with the
\* subscriptions), and the response's status text when that has none
C27_OkMirrorsHttp ==
    (calc.fn = "fetch" /\ calc.done /\ ~calc.in.response.threw) =>
        LET parsed == tryParseJson(calc.in.response.body)
            merged == merge88CodeData(parsed,
                          tryParseJson(calc.in.subscriptionResponse.body))
            sources == {normalizeStatus(parsed)}
                       \cup (IF merged.threw THEN {} ELSE {normalizeStatus(merged.v)})
        IN  /\ calc.out.ok = calc.in.response.ok
            /\ calc.out.ok => calc.out.message = None
            /\ ~calc.out.ok =>
                   \E fields \in sources :
                       /\ calc.out.balance = fields.balance
                       /\ calc.out.usage = fields.usage
                       /\ calc.out.total = fields.total
                       /\ calc.out.message =
                              IF fields.message.some THEN fields.message
                              ELSE Some(Message(calc.in.response.statusText))

\* a failed response whose body carries a message, the second request
\* having failed too: ok is false and the message is the body's
C27_Witness ==
    /\ calc.fn = "fetch" /\ calc.done
    /\ ~calc.in.response.threw /\ ~calc.in.response.ok
    /\ calc.in.response.body.json
    /\ Includes(calc.in.url, UserSelfPath)
    /\ calc.in.statusResponse.threw
    /\ ~calc.out.ok
    /\ calc.out.message = Some(Chars(<<"x">>))

\* text is what is left of raw without the spaces at its two ends
IsTrimOf(text, raw) ==
    /\ text = <<>> \/ (text[1] # " " /\ text[Len(text)] # " ")
    /\ \E lead \in 0..Len(raw) :
           /\ lead + Len(text) <= Len(raw)
           /\ SubSeq(raw, lead + 1, lead + Len(text)) = text
           /\ \A i \in 1..Len(raw) :
                  (i <= lead \/ i > lead + Len(text)) => raw[i] = " "

\* the field of the status block is blank: absent, or spaces only
BlankField(status, f) ==
    ~status.some \/ ~status.v[f].some \/ \A i \in 1..Len(status.v[f].v) :
                                             status.v[f].v[i] = " "

\* C28: normalizeStatusBlock(status) is undefined exactly when url,
\* authorization, userId and cookie are all blank (absent or spaces only);
\* otherwise it is a block in which every blank field is undefined and every
\* other field is the given text without the spaces at its ends
C28_StatusBlockAllOrNothing ==
    (calc.fn = "block" /\ calc.done) =>
        LET Fields == {"url", "authorization", "userId", "cookie"}
        IN  /\ ~calc.out.some <=> \A f \in Fields : BlankField(calc.in, f)
            /\ calc.out.some =>
                   /\ DOMAIN calc.out.v = Fields
                   /\ \A f \in Fields :
                          IF BlankField(calc.in, f) THEN ~calc.out.v[f].some
                          ELSE /\ calc.out.v[f].some
                               /\ IsTrimOf(calc.out.v[f].v, calc.in.v[f].v)

\* only the cookie is not blank: the block is kept, the cookie trimmed, the
\* three other fields undefined
C28_Witness ==
    /\ calc.fn = "block" /\ calc.done
    /\ calc.in.some
    /\ calc.in.v.url = Some(<<" ">>) /\ calc.in.v.authorization = Some(<<>>)
    /\ calc.in.v.userId = None /\ calc.in.v.cookie = Some(<<" ", "s", " ">>)
    /\ calc.out = StatusBlock(None, None, None, Some(<<"s">>))

\* every stored record of the list has a snapshot in the cache
AllCached(cs, cache) == \A i \in 1..Len(cs) : cs[i].id \in DOMAIN cache

\* C29: a refreshAll call handles the records one at a time, in the order
\* of the array it iterates.  In every step of the call that follows the
\* answer to a request, the snapshot of the record asked about is cached in
\* that step; at most one request of the call is sent by the step, to a
\* record later in the array, and all records between the two have their
\* snapshots cached by then, as have all records before the first request
\* of the call when that is sent.  When the call returns, no addConfig or
\* deleteConfig having run since it began, every stored record has a
\* snapshot in the cache.
C29_RefreshAllSequential ==
    [][/\ \A call \in inflight :
              (call.all /\ call \notin inflight' /\ last'.op # "delete") =>
                  LET array == IF call.live THEN configs ELSE call.list
                      started == {next \in inflight' \ inflight : next.all}
                  IN  /\ call.id \in DOMAIN statusCache'
                      /\ Cardinality(started) <= 1
                      /\ \A next \in started :
                             /\ next.pos > call.pos
                             /\ next.id = array[next.pos].id
                             /\ \A i \in call.pos..(next.pos - 1) :
                                    array[i].id \in DOMAIN statusCache'
                      /\ (/\ phase' = "returned" /\ last'.err = "none"
                          /\ call.live /\ call.since = nextId)
                         => AllCached(configs', statusCache')
       /\ (/\ last'.op = "refreshAll" /\ phase = "ready" /\ phase' = "returned"
           /\ inflight' = inflight)
          => AllCached(configs', statusCache')
       /\ \A next \in inflight' \ inflight :
              (next.all /\ \A call \in inflight : ~call.all \/ call \in inflight')
              => \A i \in 1..(next.pos - 1) : configs[i].id \in DOMAIN statusCache'
      ]_vars

\* a refreshAll call over two records with status urls has been answered
\* for the first and is suspended on the request for the second
C29_Witness ==
    /\ Len(configs) = 2
    /\ \E call \in inflight :
           /\ call.all /\ call.live /\ call.pos = 2 /\ call.since = nextId
           /\ call.id = configs[2].id
    /\ configs[1].status.some /\ ~Falsy(configs[1].status.v.url)
    /\ configs[1].id \in DOMAIN statusCache
    /\ configs[2].id \notin DOMAIN statusCache

\* the requests that are to be answered with a state message
StateRequests ==
    {"ready", "addConfig", "updateConfig", "setActive", "refreshStatus",
     "refreshAll"}

\* a flag of the webview that is set is cleared in the end
FlagsCleared ==
    /\ webview.loading ~> ~webview.loading
    /\ webview.refreshing ~> ~webview.refreshing

\* C30: every ready, addConfig, updateConfig, setActive, refreshStatus and
\* refreshAll message whose handler has started is answered in the end with
\* a state message posted by that handler, and the loading and refreshing
\* flags of the webview, once set, are cleared in the end.
C30_RequestsAnswered ==
    /\ \A n \in 1..MaxRequests :
           (\E type \in StateRequests : <<n, type>> \in webview.received)
           ~> (n \in webview.answered)
    /\ FlagsCleared

\* every request is answered in the end with a state message or with an
\* error notification
AnsweredOrFailed ==
    \A n \in 1..MaxRequests :
        (\E type \in StateRequests : <<n, type>> \in webview.received)
        ~> (n \in webview.answered \cup webview.errors)

\* C31: a successful updateConfig changes the external file(s) of an
\* endpoint type only if the record was active for that type and the
\* validated document(s) of that type differ from the stored one(s); when
\* that is so for neither type no external file changes and updateConfig
\* returns false.
C31_UpdateWritesOnlyChanged ==
    [][\A id \in Ids, input \in ValidInputs :
          (last'.op = "update" /\ last'.err = "none" /\ UpdateConfig(id, input))
          => LET target == configs[IndexOfId(configs, id)]
                 payload == PayloadOf(input)
                 claudeChanged == /\ activeClaudeId = id
                                  /\ target.claude.some /\ payload.claude.some
                                  /\ target.claude.v # payload.claude.v
                 codexChanged == /\ activeCodexId = id
                                 /\ target.codex.some /\ payload.codex.some
                                 /\ target.codex.v # payload.codex.v
             IN  /\ extClaude' # extClaude => claudeChanged
                 /\ <<extCodexAuth', extCodexToml'>> # <<extCodexAuth, extCodexToml>>
                    => codexChanged
                 /\ (~claudeChanged /\ ~codexChanged)
                    => (UNCHANGED extVars /\ ~last'.ret)]_vars

C33_NoFlagForDeleted ==
    inflight = {}
    => /\ activeClaudeId # NoId => IndexOfId(configs, activeClaudeId) # 0
       /\ activeCodexId # NoId => IndexOfId(configs, activeCodexId) # 0

\* the active flags of a ConfigManager newly constructed and initialized
\* over the present store file and external files
FreshClaudeId == detectActiveClaude(load(disk).configs, NoId, extClaude)

FreshCodexId == detectActiveCodex(load(disk).configs, NoId, extCodexAuth, extCodexToml)

C35_FailedWriteKeepsFlag ==
    (last.op = "setActive" /\ last.err = "io")
    => (IF arg.type = "claude" THEN activeClaudeId ELSE activeCodexId) # arg.id

\* C36: when a setActiveConfig(A, type) call returns after a
\* setActiveConfig(B, type) call for another record has returned while it
\* was suspended on its write, and no handler is suspended any more, then
\* the external file(s) of the type hold the document(s) of the record the
\* active flag of the type names (A or B)
C36_FilesOfFlaggedRecord ==
    [][\A task \in inflight :
          ( /\ task.op = "setActive"
            /\ task.after \notin {NoId, task.id}
            /\ inflight' = {}
            /\ last'.op = "setActive" /\ last'.err = "none"
            /\ ActiveId(task.type)' \in {task.id, task.after}
            /\ IndexOfId(configs', task.id) # 0
            /\ IndexOfId(configs', task.after) # 0 )
          => WrittenAfter(configs'[IndexOfId(configs', ActiveId(task.type)')],
                          task.type)]_vars

\* C37: with mutating handlers overlapping at persist, once no handler is
\* suspended the store file holds exactly the record list held in memory:
\* the text of an earlier persist never replaces that of a later one
C37_LastSnapshotOnDisk ==
    (inflight = {} /\ nextId > 1) => disk = persist(configs)

\* C38: refreshAll never throws, also when a record is deleted while it is
\* suspended on a request: every refreshAll call returns normally
C38_RefreshAllNeverThrows ==
    last.op = "refreshAll" => last.err = "none"

\* C39: setActiveConfig(id, type) leaves the other endpoint type alone,
\* whether it returns or throws: the active flag and the external file(s) of
\* the other type, the record list and the store file are as before
C39_SetActiveOwnTypeOnly ==
    [][\A id \in Ids, type \in ProviderTypes :
          (last'.op = "setActive" /\ SetActiveConfig(id, type))
          => /\ configs' = configs
             /\ disk' = disk
             /\ type = "claude"
                => UNCHANGED <<activeCodexId, extCodexAuth, extCodexToml>>
             /\ type = "codex" => UNCHANGED <<activeClaudeId, extClaude>>]_vars

\* setActiveConfig(id, "claude") has just written settings.json for the
\* second of two records while the first is the active Codex record and the
\* Codex files hold documents that are not those of the second
C39_Witness ==
    /\ last.op = "setActive"
    /\ last.err = "none"
    /\ arg.type = "claude"
    /\ Len(configs) = 2
    /\ arg.id = configs[2].id
    /\ activeClaudeId = configs[2].id
    /\ extClaude = Some(configs[2].claude.v.settingsJson)
    /\ activeCodexId = configs[1].id
    /\ configs[2].codex.some
    /\ extCodexToml # Some(configs[2].codex.v.configToml)

====
